---- MODULE Spec2Model ----
(***************************************************************************)
(* Head-diagram region engine of neurotrack: nearest-anchor vertex         *)
(* classification, boundary marking, per-region sub-geometries, the        *)
(* per-frame camera visibility pass, pointer picking and the log page's    *)
(* toggle handler.                                                         *)
(*                                                                         *)
(* Numbers.  Model-space coordinates are integers in hundredths of a unit  *)
(* (0.70 is 70), so squared distances are exact.  Direction cosines,       *)
(* visibility and opacity are fixed-point: a direction component or a      *)
(* visibility v stands for v / ONE, an opacity o for o / (100 * ONE).      *)
(*                                                                         *)
(* Indices are the code's zero-based indices; At(s, i) reads element i of  *)
(* an array kept as a TLA+ sequence.                                       *)
(***************************************************************************)
EXTENDS Integers, Sequences, FiniteSets, TLC

VARIABLES
    phase,            \* "loading" | "detailed" | "error": what HeadDiagram3D presents
    normalizedGeo,    \* the normalised mesh: position, normal, index
    vertexAnchorMap,  \* per-vertex index into ALL_ANCHORS (overlay head)
    regionGeos,       \* one sub-geometry per entry of REGIONS (overlay head)
    vertexRegions,    \* per-vertex index into ALL_VORONOI_REGIONS (vertex-colour head)
    isBoundary,       \* per-vertex 0/1 seam marker (vertex-colour head)
    camera,           \* camera.position
    matRefs,          \* per-region overlay material: visible, opacity
    hoveredRef,       \* hovered region index, -1 for none
    cursor,           \* document.body.style.cursor
    selectedRegions,  \* the log page's selectedRegions (also selectedRef.current)
    intensities,      \* the log page's intensities
    painTypes,        \* the log page's painTypes
    frameInputs,      \* camera, selection and hover read by the latest frame pass
    calls,            \* names passed to onToggleRegion by the latest press or click
    last,             \* the latest pointer or sidebar event and its input
    undo,             \* the latest toggle: its region and the selection before it
    mounted,          \* the heads presented inside the error boundary
    frameSubs,        \* number of registered useFrame callbacks
    escaped,          \* an exception left HeadDiagram3D
    hoveredRegion,    \* hover state of the vertex-colour head: a name or "null"
    hov,              \* hover state of the fallback head: a name or "null"
    hoveredPart,      \* hover state of the older fallback head: a name or "null"
    currentUser,      \* the store's currentUser: a user id, 0 for null
    sessions,         \* the store's sessions
    nextUuid,         \* the next value of uuidv4()
    addedBy,          \* per session id, the user logged in when it was added
    startTime,        \* the log form's startTime: 0 for '', else an instant
    endTime,          \* the log form's endTime
    route,            \* the page the router shows
    alertShown,       \* the message of the latest alert(), "" for none
    slider,           \* per selected region, the value last set with its slider
    parity            \* the regions toggled an odd number of times

meshVars == <<normalizedGeo, vertexAnchorMap, regionGeos, vertexRegions, isBoundary>>
viewVars == <<camera, matRefs, hoveredRef, cursor>>
pageVars == <<selectedRegions, intensities, painTypes>>
histVars == <<frameInputs, calls, last, undo>>
lifeVars == <<mounted, frameSubs, escaped>>
fallbackHover == <<hov, hoveredPart>>
otherHover == <<hoveredRegion, fallbackHover>>
storeVars == <<currentUser, sessions, nextUuid, addedBy>>
logVars == <<startTime, endTime, route, alertShown, slider, parity>>
appVars == <<storeVars, logVars>>
vars == <<phase, meshVars, viewVars, pageVars, histVars, lifeVars, otherHover, appVars>>

----------------------------------------------------------------------------
(* Arrays and arithmetic *)

At(s, i) == s[i + 1]

Count(s) == Len(s)

Indices(s) == 0 .. (Len(s) - 1)

Max2(a, b) == IF a >= b THEN a ELSE b

Min2(a, b) == IF a <= b THEN a ELSE b

\* the fixed-point unit: 1.0
ONE == 10 * 100

\* division rounding toward zero, the fixed-point image of a float quotient
DivT(a, b) == IF a >= 0 THEN a \div b ELSE -((-a) \div b)

RECURSIVE ISqrtBetween(_, _, _)
ISqrtBetween(n, lo, hi) ==
    IF lo >= hi THEN lo
    ELSE LET mid == (lo + hi + 1) \div 2
         IN  IF mid * mid <= n THEN ISqrtBetween(n, mid, hi)
                               ELSE ISqrtBetween(n, lo, mid - 1)

ISqrt(n) == ISqrtBetween(n, 0, Min2(n, 46340))

Dot3(u, v) == u[1] * v[1] + u[2] * v[2] + u[3] * v[3]

\* THREE.Vector3.normalize: v / |v|, the zero vector stays zero
Normalize(v) ==
    LET w == <<10 * v[1], 10 * v[2], 10 * v[3]>>
        n == ISqrt(Dot3(w, w))
    IN  IF n = 0 THEN <<0, 0, 0>>
        ELSE <<DivT(w[1] * ONE, n), DivT(w[2] * ONE, n), DivT(w[3] * ONE, n)>>

\* THREE.Vector3.dot of two fixed-point directions
DotFx(u, v) == DivT(Dot3(u, v), ONE)

----------------------------------------------------------------------------
(* Region catalog and anchors of the overlay head *)

REGIONS == <<
    [name |-> "Frontal (Forehead)",           position |-> <<0, 70, 72>>,    facing |-> <<0, 25, 100>>],
    [name |-> "Vertex (Crown)",               position |-> <<0, 96, 10>>,    facing |-> <<0, 100, 0>>],
    [name |-> "Left Temporal",                position |-> <<76, 28, 30>>,   facing |-> <<100, 10, 30>>],
    [name |-> "Right Temporal",               position |-> <<-76, 28, 30>>,  facing |-> <<-100, 10, 30>>],
    [name |-> "Left Parietal",                position |-> <<65, 60, -20>>,  facing |-> <<85, 50, -20>>],
    [name |-> "Right Parietal",               position |-> <<-65, 60, -20>>, facing |-> <<-85, 50, -20>>],
    [name |-> "Left Periorbital",             position |-> <<35, 12, 90>>,   facing |-> <<25, 0, 100>>],
    [name |-> "Right Periorbital",            position |-> <<-35, 12, 90>>,  facing |-> <<-25, 0, 100>>],
    [name |-> "Left Sinus / Maxillary",       position |-> <<30, -15, 90>>,  facing |-> <<20, -15, 100>>],
    [name |-> "Right Sinus / Maxillary",      position |-> <<-30, -15, 90>>, facing |-> <<-20, -15, 100>>],
    [name |-> "Left Auricular",               position |-> <<86, 2, 8>>,     facing |-> <<100, 0, 10>>],
    [name |-> "Right Auricular",              position |-> <<-86, 2, 8>>,    facing |-> <<-100, 0, 10>>],
    [name |-> "Occipital (Back of Skull)",    position |-> <<0, 28, -92>>,   facing |-> <<0, 20, -100>>],
    [name |-> "Suboccipital (Base of Skull)", position |-> <<0, -38, -82>>,  facing |-> <<0, -35, -95>>],
    [name |-> "Cervicogenic (Neck)",          position |-> <<0, -90, -10>>,  facing |-> <<0, -80, -25>>] >>

RegionIdx == Indices(REGIONS)

RegionNames == {At(REGIONS, ri).name : ri \in RegionIdx}

REGION_FACING == [i \in 1 .. Len(REGIONS) |-> Normalize(REGIONS[i].facing)]

DUMMY == <<
    <<0, -12, 104>>, <<0, -28, 100>>, <<0, -48, 90>>, <<0, -65, 72>>, <<0, -78, 45>>,
    <<42, -38, 74>>, <<-42, -38, 74>>, <<60, -10, 65>>, <<-60, -10, 65>>,
    <<92, 12, 22>>, <<-92, 12, 22>>, <<92, -10, 18>>, <<-92, -10, 18>>,
    <<55, -55, 35>>, <<-55, -55, 35>>, <<28, -55, -72>>, <<-28, -55, -72>>,
    <<0, 88, -55>> >>

ALL_ANCHORS ==
    [i \in 1 .. Len(REGIONS) |->
        [pos |-> REGIONS[i].position, regionIdx |-> i - 1, clickable |-> TRUE]]
    \o [i \in 1 .. Len(DUMMY) |->
        [pos |-> DUMMY[i], regionIdx |-> -1, clickable |-> FALSE]]

(* Regions and anchors of the vertex-colour head *)

REGIONS_VC == <<
    [name |-> "Forehead",         position |-> <<0, 60, 80>>],
    [name |-> "Left temple",      position |-> <<60, 30, 40>>],
    [name |-> "Right temple",     position |-> <<-60, 30, 40>>],
    [name |-> "Behind left eye",  position |-> <<35, 15, 90>>],
    [name |-> "Behind right eye", position |-> <<-35, 15, 90>>],
    [name |-> "Back of head",     position |-> <<0, 30, -90>>],
    [name |-> "Neck base",        position |-> <<0, -80, -20>>] >>

DUMMY_REGIONS == <<
    [name |-> "Nose",         position |-> <<0, -10, 100>>],
    [name |-> "Mouth",        position |-> <<0, -40, 90>>],
    [name |-> "Left cheek",   position |-> <<40, -30, 70>>],
    [name |-> "Right cheek",  position |-> <<-40, -30, 70>>],
    [name |-> "Left ear",     position |-> <<80, 0, 0>>],
    [name |-> "Right ear",    position |-> <<-80, 0, 0>>],
    [name |-> "Top of head",  position |-> <<0, 90, 0>>],
    [name |-> "Jaw",          position |-> <<0, -70, 50>>],
    [name |-> "Back of neck", position |-> <<0, -60, -70>>] >>

ALL_VORONOI_REGIONS ==
    [i \in 1 .. Len(REGIONS_VC) |->
        [name |-> REGIONS_VC[i].name, pos |-> REGIONS_VC[i].position, clickable |-> TRUE]]
    \o [i \in 1 .. Len(DUMMY_REGIONS) |->
        [name |-> DUMMY_REGIONS[i].name, pos |-> DUMMY_REGIONS[i].position, clickable |-> FALSE]]

----------------------------------------------------------------------------
(* Vertex classifier *)

\* (vx - ax) ** 2 + (vy - ay) ** 2 + (vz - az) ** 2
Dist2(v, p) ==
    (v[1] - p[1]) * (v[1] - p[1]) + (v[2] - p[2]) * (v[2] - p[2])
        + (v[3] - p[3]) * (v[3] - p[3])

\* minD2 starts at Infinity, written -1 here
Infinity == 0 - 1

ImprovesOrTies(d2, minD2) == minD2 = Infinity \/ d2 <= minD2

\* the test of the inner loop: if (d2 < minD2) { minD2 = d2; best = a; }
Improves(d2, minD2) == minD2 = Infinity \/ d2 < minD2

RECURSIVE NearestScan(_, _, _, _, _)
NearestScan(anchors, v, a, minD2, best) ==
    IF a >= Count(anchors) THEN best
    ELSE LET d2 == Dist2(v, At(anchors, a).pos)
         IN  IF Improves(d2, minD2) THEN NearestScan(anchors, v, a + 1, d2, a)
                                    ELSE NearestScan(anchors, v, a + 1, minD2, best)

\* the overlay head: let minD2 = Infinity, best = 0
BuildVertexAnchorMap(geo) ==
    [i \in 1 .. Count(geo.position) |->
        NearestScan(ALL_ANCHORS, geo.position[i], 0, Infinity, 0)]

\* the vertex-colour head: let minDist = Infinity, bestRegion = -1
BuildVertexRegions(geo) ==
    [i \in 1 .. Count(geo.position) |->
        NearestScan(ALL_VORONOI_REGIONS, geo.position[i], 0, Infinity, 0 - 1)]

----------------------------------------------------------------------------
(* Boundary marking of the vertex-colour head *)

SeamEvenIfAllDummy(rA, rB, rC) == rA # rB \/ rB # rC \/ rA # rC

\* (rA !== rB || rB !== rC || rA !== rC) && (isClickableA || isClickableB || isClickableC)
IsSeamTriangle(rA, rB, rC) ==
    /\ rA # rB \/ rB # rC \/ rA # rC
    /\ \/ At(ALL_VORONOI_REGIONS, rA).clickable
       \/ At(ALL_VORONOI_REGIONS, rB).clickable
       \/ At(ALL_VORONOI_REGIONS, rC).clickable

RECURSIVE MarkBoundary(_, _, _, _)
MarkBoundary(index, vRegions, i, boundary) ==
    IF i >= Count(index) THEN boundary
    ELSE LET a == At(index, i)
             b == At(index, i + 1)
             c == At(index, i + 2)
         IN  MarkBoundary(index, vRegions, i + 3,
                 IF IsSeamTriangle(At(vRegions, a), At(vRegions, b), At(vRegions, c))
                 THEN [boundary EXCEPT ![a + 1] = 1, ![b + 1] = 1, ![c + 1] = 1]
                 ELSE boundary)

BuildIsBoundary(geo, vRegions) ==
    MarkBoundary(geo.index, vRegions, 0, [i \in 1 .. Count(geo.position) |-> 0])

----------------------------------------------------------------------------
(* Per-region sub-geometries of the overlay head *)

\* +(map[a] === targetIdx) + +(map[b] === targetIdx) + +(map[c] === targetIdx)
Score(map, a, b, c, targetIdx) ==
    (IF At(map, a) = targetIdx THEN 1 ELSE 0)
    + (IF At(map, b) = targetIdx THEN 1 ELSE 0)
    + (IF At(map, c) = targetIdx THEN 1 ELSE 0)

KeepsAnyTouching(score) == score >= 1

KeepsOnlyUniform(score) == score = 3

\* if (score >= 2)
Keeps(score) == score >= 2

AddVertAlwaysCopies(geo, acc, vi) ==
    [acc EXCEPT !.remap = [x \in DOMAIN acc.remap \cup {vi} |->
                              IF x = vi THEN Len(acc.position) ELSE acc.remap[x]],
                !.position = Append(acc.position, At(geo.position, vi)),
                !.normal = Append(acc.normal, At(geo.normal, vi))]

\* addVert: copy vertex vi on first use, ni = posArr.length / 3
AddVert(geo, acc, vi) ==
    IF vi \in DOMAIN acc.remap THEN acc
    ELSE [acc EXCEPT !.remap = (vi :> Len(acc.position)) @@ acc.remap,
                     !.position = Append(acc.position, At(geo.position, vi)),
                     !.normal = Append(acc.normal, At(geo.normal, vi))]

PushTriangle(geo, acc, a, b, c) ==
    LET accA == AddVert(geo, acc, a)
        accB == AddVert(geo, accA, b)
        accC == AddVert(geo, accB, c)
    IN  [accC EXCEPT !.index = @ \o <<accC.remap[a], accC.remap[b], accC.remap[c]>>]

RECURSIVE RegionScan(_, _, _, _, _)
RegionScan(geo, map, targetIdx, i, acc) ==
    IF i >= Count(geo.index) THEN acc
    ELSE LET a == At(geo.index, i)
             b == At(geo.index, i + 1)
             c == At(geo.index, i + 2)
         IN  RegionScan(geo, map, targetIdx, i + 3,
                 IF Keeps(Score(map, a, b, c, targetIdx))
                 THEN PushTriangle(geo, acc, a, b, c)
                 ELSE acc)

EmptyFunction == [x \in {} |-> 0]

buildRegionGeoCopiesAllVertices(fullGeo, map, targetIdx) ==
    [RegionScan(fullGeo, map, targetIdx, 0,
        [position |-> <<>>, normal |-> <<>>, index |-> <<>>, remap |-> EmptyFunction])
     EXCEPT !.position = fullGeo.position, !.normal = fullGeo.normal]

\* the returned geometry; remap is the function's local vertex map
buildRegionGeo(fullGeo, map, targetIdx) ==
    RegionScan(fullGeo, map, targetIdx, 0,
        [position |-> <<>>, normal |-> <<>>, index |-> <<>>, remap |-> EmptyFunction])

BuildRegionGeos(geo, map) ==
    [i \in 1 .. Len(REGIONS) |-> buildRegionGeo(geo, map, i - 1)]

----------------------------------------------------------------------------
(* Meshes handed in by the asset loader *)

\* number of vertices of the meshes of SpecGeo
MaxVerts == 4

\* largest number of triangles of the meshes of Spec
MaxViewTris == 2

\* sample vertex positions: on the frontal anchor, in dummy territory at the
\* nose, equidistant from the two periorbital anchors, at the back of the
\* skull, near the left ear
Points == <<
    <<0, 70, 72>>, <<0, -12, 104>>, <<0, 20, 85>>, <<0, 28, -92>>, <<80, 5, 5>> >>

PointSet == {Points[i] : i \in 1 .. Len(Points)}

\* a triangle strip over the given positions: triangle k is (k, k+1, k+2)
StripMesh(pos, nt) ==
    [position |-> pos,
     normal   |-> [i \in 1 .. Len(pos) |-> <<"normal", i - 1>>],
     index    |-> [j \in 1 .. 3 * nt |-> ((j - 1) \div 3) + ((j - 1) % 3)]]

\* every strip over MaxVerts sample points, and the mesh without vertices
GeoMeshes ==
    {StripMesh(pos, nt) : pos \in [1 .. MaxVerts -> PointSet], nt \in 0 .. (MaxVerts - 2)}
    \cup {StripMesh(<<>>, 0)}

\* vertex positions of the meshes of Spec: on the frontal anchor, at the nose,
\* on the forehead anchor of the vertex-colour head, at the back of the skull,
\* near the left ear
ViewPoints == <<
    <<0, 70, 72>>, <<0, -12, 104>>, <<0, 60, 80>>, <<0, 28, -92>>, <<80, 5, 5>> >>

ViewMesh(nt) ==
    StripMesh([i \in 1 .. (nt + 2) |-> ViewPoints[((i - 1) % Len(ViewPoints)) + 1]], nt)

ViewMeshes == {ViewMesh(nt) : nt \in 0 .. MaxViewTris}

EmptyGeo == [position |-> <<>>, normal |-> <<>>, index |-> <<>>]

----------------------------------------------------------------------------
(* Initial state: HeadDiagram3D mounted, the asset still loading *)

\* a material ref before its mesh mounts: matRefs.current[ri] is null
NullMaterial == [null |-> TRUE]

\* no frame pass has run yet
NoFrame == [none |-> TRUE]

\* no toggle has happened yet
NoToggle == [none |-> TRUE]

\* <meshBasicMaterial transparent opacity={0.1} />, visible by default
FreshMaterial == [visible |-> TRUE, opacity |-> 10 * ONE]

\* camera={{ position: [0, 0.10, 3.9] }}
InitialCamera == <<0, 10, 390>>

\* SimpleErrorBoundary.render
SimpleErrorBoundaryRender(hasError, children, fallback) ==
    IF hasError THEN fallback ELSE children

SuspenseShowsBoth(suspended, children, fallback) ==
    IF suspended THEN children \cup fallback ELSE children

\* <Suspense fallback={...}>: the fallback while a child is suspended
SuspenseRender(suspended, children, fallback) ==
    IF suspended THEN fallback ELSE children

\* what HeadDiagram3D presents inside its group in each phase
Presented(p) ==
    IF p = "unmounted" THEN {}
    ELSE SimpleErrorBoundaryRender(p = "error",
             SuspenseRender(p = "loading", {"RealisticHead"}, {"FallbackHead"}),
             {"FallbackHead"})

SubscriptionLeftBehind(prev, heads) ==
    IF "RealisticHead" \in heads THEN 1 ELSE prev

\* useFrame subscribes when RealisticHead mounts and unsubscribes when it unmounts
Subscriptions(prev, heads) ==
    IF "RealisticHead" \in heads THEN 1 ELSE 0

Init ==
    /\ phase = "loading"
    /\ normalizedGeo = EmptyGeo
    /\ vertexAnchorMap = <<>>
    /\ regionGeos = <<>>
    /\ vertexRegions = <<>>
    /\ isBoundary = <<>>
    /\ camera = InitialCamera
    /\ matRefs = [i \in 1 .. Len(REGIONS) |-> NullMaterial]
    /\ hoveredRef = 0 - 1
    /\ cursor = ""
    /\ selectedRegions = <<>>
    /\ intensities = EmptyFunction
    /\ painTypes = EmptyFunction
    /\ frameInputs = NoFrame
    /\ calls = <<>>
    /\ last = <<"none", 0 - 1>>
    /\ undo = NoToggle
    /\ mounted = Presented("loading")
    /\ frameSubs = 0
    /\ escaped = FALSE
    /\ hoveredRegion = "null"
    /\ hov = "null"
    /\ hoveredPart = "null"
    /\ currentUser = 0
    /\ sessions = <<>>
    /\ nextUuid = 1
    /\ addedBy = EmptyFunction
    /\ startTime = 0
    /\ endTime = 0
    /\ route = "home"
    /\ alertShown = ""
    /\ slider = EmptyFunction
    /\ parity = {}

\* the asset resolves: RealisticHead renders, its useMemo chain runs once for
\* the mesh and the overlay materials mount
MeshLoaded(geo) ==
    /\ phase = "loading"
    /\ phase' = "detailed"
    /\ normalizedGeo' = geo
    /\ vertexAnchorMap' = BuildVertexAnchorMap(geo)
    /\ regionGeos' = BuildRegionGeos(geo, vertexAnchorMap')
    /\ vertexRegions' = BuildVertexRegions(geo)
    /\ isBoundary' = BuildIsBoundary(geo, vertexRegions')
    /\ matRefs' = [i \in 1 .. Len(REGIONS) |-> FreshMaterial]
    /\ hoveredRef' = 0 - 1
    /\ hoveredRegion' = "null"
    /\ mounted' = Presented(phase')
    /\ frameSubs' = Subscriptions(frameSubs, mounted')
    /\ hov' = "null"
    /\ hoveredPart' = "null"
    /\ UNCHANGED <<appVars, camera, cursor, pageVars, histVars, escaped>>

\* what can throw while RealisticHead renders: the asset request is rejected,
\* the asset holds no mesh, the mesh geometry has no index
RenderErrors == {"loadFailed", "noMesh", "noIndex"}

OnlyLoadErrorsCaught(kind) == kind = "loadFailed"

\* RealisticHead renders below SimpleErrorBoundary: what it throws while
\* rendering reaches getDerivedStateFromError
ThrownInsideBoundary(kind) == kind \in RenderErrors

\* the render of RealisticHead throws: getDerivedStateFromError sets hasError;
\* the fallback of Suspense unmounts and the fallback of the boundary mounts,
\* a new FallbackHead with its initial state
MeshFailed ==
    /\ phase = "loading"
    /\ \E kind \in RenderErrors :
          /\ escaped' = (escaped \/ ~ThrownInsideBoundary(kind))
          /\ phase' = IF ThrownInsideBoundary(kind) THEN "error" ELSE "unmounted"
    /\ mounted' = Presented(phase')
    /\ frameSubs' = Subscriptions(frameSubs, mounted')
    /\ hov' = "null"
    /\ hoveredPart' = "null"
    /\ UNCHANGED <<appVars, meshVars, viewVars, pageVars, histVars, hoveredRegion>>

\* the page leaves: HeadDiagram3D unmounts with everything below it
Unmount ==
    /\ phase # "unmounted"
    /\ phase' = "unmounted"
    /\ mounted' = Presented(phase')
    /\ frameSubs' = Subscriptions(frameSubs, mounted')
    /\ matRefs' = [i \in 1 .. Len(REGIONS) |-> NullMaterial]
    /\ frameInputs' = NoFrame
    /\ hov' = "null"
    /\ hoveredPart' = "null"
    /\ UNCHANGED <<appVars, meshVars, camera, hoveredRef, cursor, pageVars, calls, last, undo,
                   escaped, hoveredRegion>>

LoadGeo == \E geo \in GeoMeshes : MeshLoaded(geo)

LoadView == \E geo \in ViewMeshes : MeshLoaded(geo)

NextGeo == LoadGeo

SpecGeo == Init /\ [][NextGeo]_vars

----------------------------------------------------------------------------
(* Geometry claims, checked under SpecGeo *)

VertexIdx == Indices(normalizedGeo.position)

TriangleIdx == 0 .. ((Count(normalizedGeo.index) \div 3) - 1)

Corner(t, k) == At(normalizedGeo.index, 3 * t + k)

Corners(t) == {Corner(t, 0), Corner(t, 1), Corner(t, 2)}

\* anchor a is at minimum distance from vertex v
AtMinimum(anchors, v, a) ==
    \A b \in Indices(anchors) :
        Dist2(At(normalizedGeo.position, v), At(anchors, a).pos)
            <= Dist2(At(normalizedGeo.position, v), At(anchors, b).pos)

LeastNearest(anchors, v, m) ==
    /\ m \in Indices(anchors)
    /\ AtMinimum(anchors, v, m)
    /\ \A a \in Indices(anchors) : a < m => ~AtMinimum(anchors, v, a)

\* C1: every vertex is classified to an anchor of minimum Euclidean distance,
\* and among several anchors at that distance to the first-declared one; this
\* holds for the anchor list of the overlay head and of the vertex-colour head.
C1_NearestFirstDeclared ==
    phase = "detailed" =>
        /\ Len(vertexAnchorMap) = Count(normalizedGeo.position)
        /\ Len(vertexRegions) = Count(normalizedGeo.position)
        /\ \A v \in VertexIdx :
              /\ LeastNearest(ALL_ANCHORS, v, At(vertexAnchorMap, v))
              /\ LeastNearest(ALL_VORONOI_REGIONS, v, At(vertexRegions, v))

\* a classified mesh with a vertex equidistant from its two nearest anchors
C1_Witness ==
    /\ phase = "detailed"
    /\ \E v \in VertexIdx : \E a, b \in Indices(ALL_ANCHORS) :
          /\ a < b
          /\ AtMinimum(ALL_ANCHORS, v, a)
          /\ AtMinimum(ALL_ANCHORS, v, b)
          /\ At(vertexAnchorMap, v) = a

\* the three vertices of triangle t do not share one classification
MixedVC(t) ==
    \E v, w \in Corners(t) : At(vertexRegions, v) # At(vertexRegions, w)

ClickableVC(t) ==
    \E v \in Corners(t) : At(ALL_VORONOI_REGIONS, At(vertexRegions, v)).clickable

\* C2: a vertex is marked boundary iff it belongs to at least one triangle that
\* is mixed and has a clickable classification among its three; uniform
\* triangles and mixed all-dummy triangles mark nothing.
C2_BoundaryIff ==
    phase = "detailed" =>
        /\ Len(isBoundary) = Count(normalizedGeo.position)
        /\ \A v \in VertexIdx :
              /\ At(isBoundary, v) \in {0, 1}
              /\ At(isBoundary, v) = 1 <=>
                    \E t \in TriangleIdx :
                        v \in Corners(t) /\ MixedVC(t) /\ ClickableVC(t)

\* a mesh with a seam triangle, all three vertices marked, and a mixed
\* all-dummy triangle with a vertex that stays unmarked
C2_Witness ==
    /\ phase = "detailed"
    /\ \E t \in TriangleIdx :
          /\ MixedVC(t) /\ ClickableVC(t)
          /\ \A v \in Corners(t) : At(isBoundary, v) = 1
    /\ \E t \in TriangleIdx :
          /\ MixedVC(t) /\ ~ClickableVC(t)
          /\ \E v \in Corners(t) : At(isBoundary, v) = 0

\* how many of the three corners of triangle t are classified to anchor a
Votes(t, a) ==
    Cardinality({k \in 0 .. 2 : At(vertexAnchorMap, Corner(t, k)) = a})

\* triangle t of the mesh is one of the triangles of sub-geometry g, with the
\* positions of its three corners
InSubGeo(g, t) ==
    /\ Corners(t) \subseteq DOMAIN g.remap
    /\ \E j \in 0 .. ((Len(g.index) \div 3) - 1) :
          \A k \in 0 .. 2 :
              /\ At(g.index, 3 * j + k) = g.remap[Corner(t, k)]
              /\ At(g.position, At(g.index, 3 * j + k))
                    = At(normalizedGeo.position, Corner(t, k))

RegionsHolding(t) == {ri \in RegionIdx : InSubGeo(At(regionGeos, ri), t)}

\* C3: a triangle is in region R's sub-geometry iff at least 2 of its 3
\* vertices are classified to R, and the sub-geometry has no other triangle; a
\* triangle split 1-1-1 over three anchors is in no sub-geometry.
C3_MajorityRule ==
    phase = "detailed" =>
        /\ Len(regionGeos) = Len(REGIONS)
        /\ \A ri \in RegionIdx :
              /\ \A t \in TriangleIdx :
                    InSubGeo(At(regionGeos, ri), t) <=> Votes(t, ri) >= 2
              /\ Len(At(regionGeos, ri).index)
                    = 3 * Cardinality({t \in TriangleIdx : Votes(t, ri) >= 2})
        /\ \A t \in TriangleIdx :
              (\A a \in Indices(ALL_ANCHORS) : Votes(t, a) <= 1) => RegionsHolding(t) = {}

\* a mesh with a triangle kept by a 2-of-3 vote and a 1-1-1 triangle over
\* three clickable regions
C3_Witness ==
    /\ phase = "detailed"
    /\ \E t \in TriangleIdx : \E ri \in RegionIdx :
          Votes(t, ri) = 2 /\ InSubGeo(At(regionGeos, ri), t)
    /\ \E t \in TriangleIdx :
          /\ \A a \in Indices(ALL_ANCHORS) : Votes(t, a) <= 1
          /\ \A k \in 0 .. 2 : At(vertexAnchorMap, Corner(t, k)) \in RegionIdx
          /\ RegionsHolding(t) = {}

\* C4 as stated: every triangle with at least 2 of 3 vertices agreeing on one
\* classification, clickable or dummy, is in exactly one region's sub-geometry.
C4_AsStated ==
    phase = "detailed" =>
        \A t \in TriangleIdx :
            (\E a \in Indices(ALL_ANCHORS) : Votes(t, a) >= 2)
                => Cardinality(RegionsHolding(t)) = 1

\* C4 amended: every triangle with at least 2 of 3 vertices classified to one
\* clickable region is in exactly one sub-geometry, that region's; a triangle
\* whose majority classification is a dummy anchor is in none.
C4_MajorityRegionExactlyOne ==
    phase = "detailed" =>
        \A t \in TriangleIdx : \A a \in Indices(ALL_ANCHORS) :
            Votes(t, a) >= 2 =>
                RegionsHolding(t) = (IF At(ALL_ANCHORS, a).clickable THEN {a} ELSE {})

\* a mesh with a triangle of clickable majority next to one of dummy majority
C4_Witness ==
    /\ phase = "detailed"
    /\ \E t \in TriangleIdx : \E a \in Indices(ALL_ANCHORS) :
          Votes(t, a) = 2 /\ At(ALL_ANCHORS, a).clickable /\ RegionsHolding(t) = {a}
    /\ \E t \in TriangleIdx : \E a \in Indices(ALL_ANCHORS) :
          Votes(t, a) >= 2 /\ ~At(ALL_ANCHORS, a).clickable /\ RegionsHolding(t) = {}

----------------------------------------------------------------------------
(* The log page's toggle handler *)

Includes(s, x) == \E i \in 1 .. Len(s) : s[i] = x

\* prev.filter(r => r !== region)
Without(s, x) == SelectSeq(s, LAMBDA r : r # x)

ToggleAlwaysAppends(prev, region) == Append(prev, region)

\* the updater passed to setSelectedRegions
ToggleSelected(prev, region) ==
    IF Includes(prev, region) THEN Without(prev, region) ELSE Append(prev, region)

\* delete obj[key]
DeleteKey(f, k) == [x \in DOMAIN f \ {k} |-> f[x]]

\* { ...obj, [key]: value }
SetKey(f, k, v) == [x \in DOMAIN f \cup {k} |-> IF x = k THEN v ELSE f[x]]

handleToggleRegion(region) ==
    /\ selectedRegions' = ToggleSelected(selectedRegions, region)
    /\ intensities' = IF Includes(selectedRegions, region)
                         THEN DeleteKey(intensities, region)
                         ELSE SetKey(intensities, region, 5)
    /\ painTypes' = IF Includes(selectedRegions, region)
                       THEN DeleteKey(painTypes, region)
                       ELSE SetKey(painTypes, region, <<>>)
    /\ undo' = [name |-> region, before |-> selectedRegions]

\* the sidebar buttons pressed in the model: the first of the list
SidebarButtons == {0}

\* <button onClick={() => onToggleRegion(region.name)}>
SidebarClick ==
    \E ri \in SidebarButtons :
        /\ phase # "unmounted"
        /\ handleToggleRegion(At(REGIONS, ri).name)
        /\ calls' = <<At(REGIONS, ri).name>>
        /\ last' = <<"sidebar", ri>>
        /\ UNCHANGED <<appVars, phase, lifeVars, otherHover, meshVars, viewVars, frameInputs>>

----------------------------------------------------------------------------
(* The per-frame visibility pass of the overlay head *)

\* camera positions the orbit controls move between: in front of and behind the head
Cameras == {InitialCamera, <<0, 10, 0 - 390>>}

\* _camDir.copy(camera.position).normalize(); _camDir.dot(REGION_FACING[ri]),
\* for each camera position and each region
FacingDots ==
    [cam \in Cameras |->
        [ri \in RegionIdx |-> DotFx(Normalize(cam), At(REGION_FACING, ri))]]

RegionDot(cam, ri) == FacingDots[cam][ri]

\* the dead-band 0.25, in hundredths
DEADBAND == 25

VisibilityOfEitherSide(dot) ==
    Max2(0, Min2(ONE, DivT((IF dot < 0 THEN 0 - dot ELSE dot) * 100, DEADBAND)))

\* Math.max(0, Math.min(1, dot / 0.25))
Visibility(dot) == Max2(0, Min2(ONE, DivT(dot * 100, DEADBAND)))

BaseOpacityHoverFirst(isSelected, isHovered) ==
    IF isHovered THEN (IF isSelected THEN 75 ELSE 60)
    ELSE IF isSelected THEN 40 ELSE 10

\* isSelected ? (isHovered ? 0.75 : 0.60) : isHovered ? 0.40 : 0.10, in hundredths
BaseOpacity(isSelected, isHovered) ==
    IF isSelected THEN (IF isHovered THEN 75 ELSE 60)
    ELSE IF isHovered THEN 40 ELSE 10


FrameMaterialNeverShowsAgain(mat, ri, cam, selected, hovered) ==
    IF mat = NullMaterial THEN mat
    ELSE LET visibility == Visibility(RegionDot(cam, ri))
         IN  IF visibility = 0 THEN [mat EXCEPT !.visible = FALSE]
             ELSE [mat EXCEPT !.opacity =
                      BaseOpacity(Includes(selected, At(REGIONS, ri).name), hovered = ri)
                          * visibility]

FrameMaterialIgnoresVisibility(mat, ri, cam, selected, hovered) ==
    IF mat = NullMaterial THEN mat
    ELSE LET visibility == Visibility(RegionDot(cam, ri))
         IN  IF visibility = 0 THEN [mat EXCEPT !.visible = FALSE]
             ELSE [visible |-> TRUE,
                   opacity |->
                      BaseOpacity(Includes(selected, At(REGIONS, ri).name), hovered = ri)
                          * ONE]

\* one iteration of the loop over REGIONS
FrameMaterial(mat, ri, cam, selected, hovered) ==
    IF mat = NullMaterial THEN mat
    ELSE LET visibility == Visibility(RegionDot(cam, ri))
         IN  IF visibility = 0 THEN [mat EXCEPT !.visible = FALSE]
             ELSE [visible |-> TRUE,
                   opacity |->
                      BaseOpacity(Includes(selected, At(REGIONS, ri).name), hovered = ri)
                          * visibility]

FrameAlsoClearsHover ==
    /\ frameSubs > 0
    /\ matRefs' = [i \in 1 .. Len(REGIONS) |->
                      FrameMaterial(matRefs[i], i - 1, camera, selectedRegions, hoveredRef)]
    /\ frameInputs' = [camera |-> camera, selected |-> selectedRegions,
                        hovered |-> hoveredRef]
    /\ hoveredRef' = 0 - 1
    /\ UNCHANGED <<appVars, phase, lifeVars, otherHover, meshVars, camera, cursor, pageVars, calls,
                   last, undo>>

\* the useFrame callback, registered while RealisticHead is mounted
Frame ==
    /\ frameSubs > 0
    /\ matRefs' = [i \in 1 .. Len(REGIONS) |->
                      FrameMaterial(matRefs[i], i - 1, camera, selectedRegions, hoveredRef)]
    /\ frameInputs' = [camera |-> camera, selected |-> selectedRegions,
                        hovered |-> hoveredRef]
    /\ UNCHANGED <<appVars, phase, lifeVars, otherHover, meshVars, camera, hoveredRef, cursor, pageVars, calls, last, undo>>


\* OrbitControls moves camera.position
OrbitCamera ==
    /\ phase # "unmounted"
    /\ \E c \in Cameras \ {camera} : camera' = c
    /\ UNCHANGED <<appVars, phase, lifeVars, otherHover, meshVars, matRefs, hoveredRef, cursor, pageVars, histVars>>

----------------------------------------------------------------------------
(* Pointer handlers of the overlay head *)

\* e.face of a pointer event: a triangle of the mesh, or none
NoFace == 0 - 1

Faces == {NoFace} \cup TriangleIdx

getRegionIdxDefaultsToFirst(face) ==
    IF face = NoFace THEN 0 - 1
    ELSE LET anchor == At(ALL_ANCHORS, At(vertexAnchorMap, Corner(face, 0)))
         IN  IF anchor.clickable THEN anchor.regionIdx ELSE 0

\* face.a is the first index of the hit triangle
getRegionIdx(face) ==
    IF face = NoFace THEN 0 - 1
    ELSE LET anchor == At(ALL_ANCHORS, At(vertexAnchorMap, Corner(face, 0)))
         IN  IF anchor.clickable THEN anchor.regionIdx ELSE 0 - 1

CursorAlwaysPointer(ri) == "pointer"

\* document.body.style.cursor = ri >= 0 ? 'pointer' : 'auto'
CursorFor(ri) == IF ri >= 0 THEN "pointer" ELSE "auto"

handlePointerDown ==
    /\ phase = "detailed"
    /\ \E face \in Faces :
          LET ri == getRegionIdx(face)
          IN  /\ IF ri >= 0
                    THEN /\ handleToggleRegion(At(REGIONS, ri).name)
                         /\ calls' = <<At(REGIONS, ri).name>>
                    ELSE /\ UNCHANGED <<pageVars, undo>>
                         /\ calls' = <<>>
              /\ last' = <<"down", face>>
    /\ UNCHANGED <<appVars, phase, lifeVars, otherHover, meshVars, viewVars, frameInputs>>

\* the press handler of the vertex-colour head, over the same mesh
handlePointerDownVC ==
    /\ phase = "detailed"
    /\ \E face \in Faces :
          /\ IF face # NoFace
                   /\ At(ALL_VORONOI_REGIONS, At(vertexRegions, Corner(face, 0))).clickable
                THEN LET regionInfo ==
                           At(ALL_VORONOI_REGIONS, At(vertexRegions, Corner(face, 0)))
                     IN  /\ handleToggleRegion(regionInfo.name)
                         /\ calls' = <<regionInfo.name>>
                ELSE /\ UNCHANGED <<pageVars, undo>>
                     /\ calls' = <<>>
          /\ last' = <<"downVC", face>>
    /\ UNCHANGED <<appVars, phase, lifeVars, otherHover, meshVars, viewVars, frameInputs>>

\* the move handler of the vertex-colour head
handlePointerMoveVC ==
    /\ phase = "detailed"
    /\ \E face \in Faces :
          /\ IF face = NoFace
                THEN UNCHANGED <<hoveredRegion, cursor>>
                ELSE LET regionInfo ==
                           At(ALL_VORONOI_REGIONS, At(vertexRegions, Corner(face, 0)))
                     IN  IF regionInfo.clickable
                           THEN IF hoveredRegion # regionInfo.name
                                  THEN /\ hoveredRegion' = regionInfo.name
                                       /\ cursor' = "pointer"
                                  ELSE UNCHANGED <<hoveredRegion, cursor>>
                           ELSE IF hoveredRegion # "null"
                                  THEN /\ hoveredRegion' = "null"
                                       /\ cursor' = "auto"
                                  ELSE UNCHANGED <<hoveredRegion, cursor>>
          /\ last' = <<"moveVC", face>>
    /\ calls' = <<>>
    /\ UNCHANGED <<appVars, phase, lifeVars, fallbackHover, meshVars, camera, matRefs, hoveredRef,
                   pageVars, frameInputs, undo>>

\* the pointer-out handler of the vertex-colour head
handlePointerOutVC ==
    /\ phase = "detailed"
    /\ hoveredRegion' = "null"
    /\ cursor' = "auto"
    /\ calls' = <<>>
    /\ last' = <<"outVC", NoFace>>
    /\ UNCHANGED <<appVars, phase, lifeVars, fallbackHover, meshVars, camera, matRefs, hoveredRef,
                   pageVars, frameInputs, undo>>

handlePointerMove ==
    /\ phase = "detailed"
    /\ \E face \in Faces :
          LET ri == getRegionIdx(face)
          IN  /\ IF ri # hoveredRef
                    THEN /\ hoveredRef' = ri
                         /\ cursor' = CursorFor(ri)
                    ELSE UNCHANGED <<hoveredRef, cursor>>
              /\ last' = <<"move", face>>
    /\ calls' = <<>>
    /\ UNCHANGED <<appVars, phase, lifeVars, otherHover, meshVars, camera, matRefs, pageVars, frameInputs, undo>>

handlePointerOutKeepsCursor ==
    /\ phase = "detailed"
    /\ hoveredRef' = 0 - 1
    /\ calls' = <<>>
    /\ last' = <<"out", NoFace>>
    /\ UNCHANGED <<appVars, phase, lifeVars, otherHover, meshVars, camera, matRefs, cursor,
                   pageVars, frameInputs, undo>>

handlePointerOut ==
    /\ phase = "detailed"
    /\ hoveredRef' = 0 - 1
    /\ cursor' = "auto"
    /\ calls' = <<>>
    /\ last' = <<"out", NoFace>>
    /\ UNCHANGED <<appVars, phase, lifeVars, otherHover, meshVars, camera, matRefs, pageVars, frameInputs, undo>>

Next ==
    \/ LoadView
    \/ MeshFailed
    \/ Unmount
    \/ OrbitCamera
    \/ Frame
    \/ handlePointerDown
    \/ handlePointerDownVC
    \/ handlePointerMove
    \/ handlePointerOut
    \/ SidebarClick

Spec == Init /\ [][Next]_vars

\* the pointer handlers of both heads over a loaded mesh, without the frame pass
NextPointer ==
    \/ LoadView
    \/ handlePointerDown
    \/ handlePointerMove
    \/ handlePointerOut
    \/ handlePointerDownVC
    \/ handlePointerMoveVC
    \/ handlePointerOutVC

SpecPointer == Init /\ [][NextPointer]_vars

----------------------------------------------------------------------------
(* The geometric fallback head, presented while the asset loads and after an error *)

\* hit points on the cranium sphere: their Z coordinate, times 100.  The sphere
\* and the groups above it are moved along Y only, so e.point.z is also the
\* local Z of the hit
CraniumHitZ == {0 - 50, 0, 50}

\* regions selected at once in the runs of the fallback head
MaxSelected == 2

CraniumRegionZeroIsFront(z) ==
    IF z >= 0 THEN "Frontal (Forehead)" ELSE "Occipital (Back of Skull)"

\* e.point.z > 0 ? 'Frontal (Forehead)' : 'Occipital (Back of Skull)'
CraniumRegion(z) ==
    IF z > 0 THEN "Frontal (Forehead)" ELSE "Occipital (Back of Skull)"

\* the older fallback head: e.point.z > 0 ? 'Forehead' : 'Back of head'
CraniumRegionVC(z) ==
    IF z > 0 THEN "Forehead" ELSE "Back of head"

\* the primitives with a handler of their own, in the order of the JSX: two
\* eyes, two temples, the neck; the jaw has no handler
FallbackParts == <<"Left Periorbital", "Right Periorbital", "Left Temporal",
                   "Right Temporal", "Cervicogenic (Neck)">>

\* the page keeps at most MaxSelected regions selected in these runs
RoomFor(region) ==
    Includes(selectedRegions, region) \/ Len(selectedRegions) < MaxSelected

\* onClick of the cranium sphere
FallbackCraniumClick ==
    /\ "FallbackHead" \in mounted
    /\ \E z \in CraniumHitZ :
          /\ RoomFor(CraniumRegion(z))
          /\ handleToggleRegion(CraniumRegion(z))
          /\ calls' = <<CraniumRegion(z)>>
          /\ last' = <<"craniumClick", z>>
    /\ UNCHANGED <<appVars, phase, lifeVars, otherHover, meshVars, viewVars, frameInputs>>

\* onPointerMove of the cranium sphere
FallbackCraniumMove ==
    /\ "FallbackHead" \in mounted
    /\ \E z \in CraniumHitZ :
          LET r == CraniumRegion(z)
          IN  /\ IF hov # r
                    THEN /\ hov' = r
                         /\ cursor' = "pointer"
                    ELSE UNCHANGED <<hov, cursor>>
              /\ last' = <<"craniumMove", z>>
    /\ calls' = <<>>
    /\ UNCHANGED <<appVars, phase, lifeVars, hoveredRegion, hoveredPart, meshVars, camera, matRefs,
                   hoveredRef, pageVars, frameInputs, undo>>

\* onClick of an eye, a temple or the neck
FallbackPartClick ==
    /\ "FallbackHead" \in mounted
    /\ \E i \in Indices(FallbackParts) :
          /\ RoomFor(At(FallbackParts, i))
          /\ handleToggleRegion(At(FallbackParts, i))
          /\ calls' = <<At(FallbackParts, i)>>
          /\ last' = <<"partClick", i>>
    /\ UNCHANGED <<appVars, phase, lifeVars, otherHover, meshVars, viewVars, frameInputs>>

\* over: onPointerOver of an eye, a temple or the neck
FallbackPartOver ==
    /\ "FallbackHead" \in mounted
    /\ \E i \in Indices(FallbackParts) :
          /\ hov' = At(FallbackParts, i)
          /\ last' = <<"partOver", i>>
    /\ cursor' = "pointer"
    /\ calls' = <<>>
    /\ UNCHANGED <<appVars, phase, lifeVars, hoveredRegion, hoveredPart, meshVars, camera, matRefs,
                   hoveredRef, pageVars, frameInputs, undo>>

\* out: onPointerOut of every primitive with a handler
FallbackOut ==
    /\ "FallbackHead" \in mounted
    /\ hov' = "null"
    /\ cursor' = "auto"
    /\ calls' = <<>>
    /\ last' = <<"partOut", NoFace>>
    /\ UNCHANGED <<appVars, phase, lifeVars, hoveredRegion, hoveredPart, meshVars, camera, matRefs,
                   hoveredRef, pageVars, frameInputs, undo>>

\* onClick of the cranium sphere of the older fallback head
FallbackCraniumClickVC ==
    /\ "FallbackHead" \in mounted
    /\ \E z \in CraniumHitZ :
          /\ RoomFor(CraniumRegionVC(z))
          /\ IF z > 0
                THEN /\ handleToggleRegion("Forehead")
                     /\ calls' = <<"Forehead">>
                ELSE /\ handleToggleRegion("Back of head")
                     /\ calls' = <<"Back of head">>
          /\ last' = <<"craniumClickVC", z>>
    /\ UNCHANGED <<appVars, phase, lifeVars, otherHover, meshVars, viewVars, frameInputs>>

\* handleCraniumPointerMove of the older fallback head
handleCraniumPointerMove ==
    /\ "FallbackHead" \in mounted
    /\ \E z \in CraniumHitZ :
          LET region == CraniumRegionVC(z)
          IN  /\ IF hoveredPart # region
                    THEN /\ hoveredPart' = region
                         /\ cursor' = "pointer"
                    ELSE UNCHANGED <<hoveredPart, cursor>>
              /\ last' = <<"craniumMoveVC", z>>
    /\ calls' = <<>>
    /\ UNCHANGED <<appVars, phase, lifeVars, hoveredRegion, hov, meshVars, camera, matRefs,
                   hoveredRef, pageVars, frameInputs, undo>>

\* the fallback head while the asset loads and, for good, after a failure
NextFallback ==
    \/ MeshFailed
    \/ FallbackCraniumClick
    \/ FallbackCraniumMove
    \/ FallbackPartClick
    \/ FallbackPartOver
    \/ FallbackOut
    \/ FallbackCraniumClickVC
    \/ handleCraniumPointerMove

SpecFallback == Init /\ [][NextFallback]_vars

----------------------------------------------------------------------------
\* presses on the overlay head over every mesh of SpecGeo
NextPick ==
    \/ LoadGeo
    \/ handlePointerDown

SpecPick == Init /\ [][NextPick]_vars

----------------------------------------------------------------------------

\* hovering across presentation changes: the fallback head while the asset
\* loads, then the overlay head or, after a failure, the boundary's fallback
NextHover ==
    \/ LoadView
    \/ MeshFailed
    \/ FallbackCraniumMove
    \/ FallbackPartOver
    \/ FallbackOut
    \/ FallbackCraniumClick
    \/ handlePointerMove
    \/ handlePointerOut
    \/ handlePointerDown

SpecHover == Init /\ [][NextHover]_vars

----------------------------------------------------------------------------

(* The store: users and sessions *)

\* values uuidv4() returns in a run: 1 .. MaxUuid, each once
MaxUuid == 4

\* sessions kept at once in the runs of the store
MaxSessions == 2

\* an e-mail address as the sequence of its characters
Emails == { <<"a", "@", "b", ".", "c">>, <<"a", "@", "b">>, <<"a", " ", "@", "b", ".", "c">>,
            <<"a", "@", "b", "@", "c", ".", "d">>, <<"a", "@", ".", "c">> }

\* [^\s@]+
NoSpaceNoAt(chars) ==
    /\ Len(chars) > 0
    /\ \A i \in 1 .. Len(chars) : chars[i] \notin {" ", "@"}

\* /^[^\s@]+@[^\s@]+\.[^\s@]+$/.test(email)
isValidEmail(email) ==
    \E at \in 1 .. Len(email) : \E dot \in (at + 1) .. Len(email) :
        /\ email[at] = "@"
        /\ email[dot] = "."
        /\ NoSpaceNoAt(SubSeq(email, 1, at - 1))
        /\ NoSpaceNoAt(SubSeq(email, at + 1, dot - 1))
        /\ NoSpaceNoAt(SubSeq(email, dot + 1, Len(email)))

\* the argument of addSession: a session without id and user_id
SessionData ==
    { [start_time |-> 1, end_time |-> 2, regions |-> <<>>],
      [start_time |-> 1, end_time |-> 1,
       regions |-> <<[region_name |-> "Frontal (Forehead)", intensity |-> 0]>>],
      [start_time |-> 1, end_time |-> 2,
       regions |-> <<[region_name |-> "Frontal (Forehead)", intensity |-> 7],
                     [region_name |-> "Left Temporal", intensity |-> 10]>>] }

\* order of SessionData in the event log
DataNo(data) == Len(data.regions)

\* login of the store of the log page: every e-mail logs in, as a new user
login ==
    /\ nextUuid <= MaxUuid
    /\ \E email \in Emails :
          /\ currentUser' = nextUuid
          /\ nextUuid' = nextUuid + 1
          /\ last' = <<"login", nextUuid>>
    /\ calls' = <<>>
    /\ UNCHANGED <<phase, meshVars, viewVars, pageVars, frameInputs, undo, lifeVars,
                   otherHover, sessions, addedBy, logVars>>

\* login of the older store: an e-mail that fails isValidEmail returns the
\* error message and sets nothing
loginValidated ==
    /\ nextUuid <= MaxUuid
    /\ \E email \in Emails :
          IF ~isValidEmail(email)
            THEN /\ last' = <<"loginRejected", nextUuid>>
                 /\ UNCHANGED <<currentUser, nextUuid>>
            ELSE /\ currentUser' = nextUuid
                 /\ nextUuid' = nextUuid + 1
                 /\ last' = <<"login", nextUuid>>
    /\ calls' = <<>>
    /\ UNCHANGED <<phase, meshVars, viewVars, pageVars, frameInputs, undo, lifeVars,
                   otherHover, sessions, addedBy, logVars>>

logout ==
    /\ currentUser' = 0
    /\ last' = <<"logout", currentUser>>
    /\ calls' = <<>>
    /\ UNCHANGED <<phase, meshVars, viewVars, pageVars, frameInputs, undo, lifeVars,
                   otherHover, sessions, nextUuid, addedBy, logVars>>

AddSessionAsFirstUser(user, list, uuid, sessionData) ==
    IF user = 0 THEN list
    ELSE Append(list, [id |-> uuid, user_id |-> 1,
                       start_time |-> sessionData.start_time,
                       end_time |-> sessionData.end_time,
                       regions |-> sessionData.regions])

\* the session list after addSession(sessionData)
AddSession(user, list, uuid, sessionData) ==
    IF user = 0 THEN list
    ELSE Append(list, [id |-> uuid, user_id |-> user,
                       start_time |-> sessionData.start_time,
                       end_time |-> sessionData.end_time,
                       regions |-> sessionData.regions])

\* addSession: the store's variables after the call
addSessionCall(sessionData) ==
    /\ sessions' = AddSession(currentUser, sessions, nextUuid, sessionData)
    /\ nextUuid' = IF currentUser = 0 THEN nextUuid ELSE nextUuid + 1
    /\ addedBy' = IF currentUser = 0 THEN addedBy
                  ELSE SetKey(addedBy, nextUuid, currentUser)
    /\ UNCHANGED currentUser

addSession ==
    /\ currentUser = 0 \/ (nextUuid <= MaxUuid /\ Len(sessions) < MaxSessions)
    /\ \E sessionData \in SessionData :
          /\ addSessionCall(sessionData)
          /\ last' = <<"addSession", DataNo(sessionData)>>
    /\ calls' = <<>>
    /\ UNCHANGED <<phase, meshVars, viewVars, pageVars, frameInputs, undo, lifeVars,
                   otherHover, logVars>>

\* deleteSession(id): sessions.filter(s => s.id !== id)
deleteSession ==
    /\ \E id \in 1 .. MaxUuid :
          /\ sessions' = SelectSeq(sessions, LAMBDA s : s.id # id)
          /\ last' = <<"deleteSession", id>>
    /\ calls' = <<>>
    /\ UNCHANGED <<phase, meshVars, viewVars, pageVars, frameInputs, undo, lifeVars,
                   otherHover, currentUser, nextUuid, addedBy, logVars>>

NextStore ==
    \/ login
    \/ loginValidated
    \/ logout
    \/ addSession
    \/ deleteSession

SpecStore == Init /\ [][NextStore]_vars

----------------------------------------------------------------------------

(* The dashboard's region analytics *)

\* the RegionLog entries of a list of sessions, in the order forEach visits them
RECURSIVE RegionLogs(_)
RegionLogs(list) ==
    IF Len(list) = 0 THEN <<>> ELSE list[1].regions \o RegionLogs(Tail(list))

\* regionMap after the two loops: per region, in order of first insertion, the
\* count and the total intensity
RECURSIVE RegionMap(_, _)
RegionMap(logs, acc) ==
    IF Len(logs) = 0 THEN acc
    ELSE LET r == logs[1]
             at == {i \in 1 .. Len(acc) : acc[i].region = r.region_name}
         IN  RegionMap(Tail(logs),
                 IF at = {}
                   THEN Append(acc, [region |-> r.region_name, count |-> 1,
                                     totalIntensity |-> r.intensity])
                   ELSE [i \in 1 .. Len(acc) |->
                           IF i \in at
                             THEN [acc[i] EXCEPT !.count = @ + 1,
                                                 !.totalIntensity = @ + r.intensity]
                             ELSE acc[i]])

\* Math.round((total / count) * 10) / 10, in tenths of a point: halves round up
AvgIntensity(total, count) ==
    IF count > 0 THEN (20 * total + count) \div (2 * count) ELSE 0

\* Array.prototype.sort((a, b) => b.count - a.count): stable, by falling count
RECURSIVE SortByCount(_)
SortByCount(list) ==
    IF Len(list) = 0 THEN <<>>
    ELSE LET top == CHOOSE i \in 1 .. Len(list) :
                      /\ \A j \in 1 .. Len(list) : list[j].count <= list[i].count
                      /\ \A j \in 1 .. (i - 1) : list[j].count < list[i].count
         IN  <<list[top]>> \o SortByCount(SubSeq(list, 1, top - 1)
                                            \o SubSeq(list, top + 1, Len(list)))

computeRegionFrequency(list) ==
    LET entries == RegionMap(RegionLogs(list), <<>>)
    IN  SortByCount([i \in 1 .. Len(entries) |->
            [region |-> entries[i].region, count |-> entries[i].count,
             avgIntensity |-> AvgIntensity(entries[i].totalIntensity, entries[i].count)]])

UserSessionsOfEveryone(list, user) == list

\* sessions.filter(s => s.user_id === currentUser.id)
UserSessions(list, user) == SelectSeq(list, LAMBDA s : s.user_id = user)

\* heatmapIntensities of the dashboard as it renders now
heatmapIntensities ==
    LET regionFrequency == computeRegionFrequency(UserSessions(sessions, currentUser))
    IN  [i \in 1 .. Len(regionFrequency) |->
            [region |-> regionFrequency[i].region,
             intensity |-> regionFrequency[i].avgIntensity]]

\* the dashboard renders the Pain Heatmap section; without a current user it
\* renders nothing
RendersHeatmap == currentUser # 0 /\ Len(heatmapIntensities) > 0

----------------------------------------------------------------------------

(* The log form: handler calls, alone and two in one batch *)

\* the regions toggled in the runs of the form
FormRegions == {"Frontal (Forehead)", "Left Temporal", "Occipital (Back of Skull)"}

\* the slider positions used: the ends of min="0" max="10" and one between
SliderValues == {0, 7, 10}

\* what the setters hold: the latest queued state of the three useState hooks
FormState == [selectedRegions |-> selectedRegions, intensities |-> intensities,
              painTypes |-> painTypes]

ToggleCallPrepends(st, snap, region) ==
    IF Includes(st.selectedRegions, region)
      THEN [selectedRegions |-> Without(st.selectedRegions, region),
            intensities |-> DeleteKey(snap.intensities, region),
            painTypes |-> DeleteKey(snap.painTypes, region)]
      ELSE [selectedRegions |-> <<region>> \o st.selectedRegions,
            intensities |-> SetKey(st.intensities, region, 5),
            painTypes |-> SetKey(st.painTypes, region, <<>>)]

\* handleToggleRegion(region) called when the queued state is st and the
\* handler's closure holds the state snap of the last render: the updaters
\* (prev => ...) read st, the copies { ...intensities } and { ...painTypes }
\* read snap
ToggleCall(st, snap, region) ==
    IF Includes(st.selectedRegions, region)
      THEN [selectedRegions |-> Without(st.selectedRegions, region),
            intensities |-> DeleteKey(snap.intensities, region),
            painTypes |-> DeleteKey(snap.painTypes, region)]
      ELSE [selectedRegions |-> Append(st.selectedRegions, region),
            intensities |-> SetKey(st.intensities, region, 5),
            painTypes |-> SetKey(st.painTypes, region, <<>>)]

\* handleIntensityChange(region, value): setIntensities(prev => ...)
IntensityCall(st, region, value) ==
    [st EXCEPT !.intensities = SetKey(st.intensities, region, value)]

\* a handler call: a toggle, or a change of a slider that the last render
\* shows to one of the given values
FormCalls(regions, values) ==
    [kind : {"toggle"}, region : regions, value : {5}]
    \cup [kind : {"intensity"},
          region : regions \cap {selectedRegions[i] : i \in 1 .. Len(selectedRegions)},
          value : values]

ApplyCall(st, snap, call) ==
    IF call.kind = "toggle" THEN ToggleCall(st, snap, call.region)
    ELSE IntensityCall(st, call.region, call.value)

\* the slider history after a call: a toggle forgets the region's value
SliderAfter(hist, call) ==
    IF call.kind = "toggle" THEN DeleteKey(hist, call.region)
    ELSE SetKey(hist, call.region, call.value)

ParityAfter(odd, call) ==
    IF call.kind # "toggle" THEN odd
    ELSE IF call.region \in odd THEN odd \ {call.region} ELSE odd \cup {call.region}

\* one handler call, then the render that React runs before the next event
OneCall(regions, values) ==
    \E call \in FormCalls(regions, values) :
        LET st == ApplyCall(FormState, FormState, call)
        IN  /\ selectedRegions' = st.selectedRegions
            /\ intensities' = st.intensities
            /\ painTypes' = st.painTypes
            /\ slider' = SliderAfter(slider, call)
            /\ parity' = ParityAfter(parity, call)
            /\ calls' = IF call.kind = "toggle" THEN <<call.region>> ELSE <<>>
            /\ last' = <<call.kind, 0>>

\* two handler calls before the component renders again: the second runs with
\* the closure of the same render as the first
TwoCalls(regions, values) ==
    \E call1 \in FormCalls(regions, values) : \E call2 \in FormCalls(regions, values) :
        LET st == ApplyCall(ApplyCall(FormState, FormState, call1), FormState, call2)
        IN  /\ selectedRegions' = st.selectedRegions
            /\ intensities' = st.intensities
            /\ painTypes' = st.painTypes
            /\ slider' = SliderAfter(SliderAfter(slider, call1), call2)
            /\ parity' = ParityAfter(ParityAfter(parity, call1), call2)
            /\ calls' = <<>>
            /\ last' = <<"batch", 0>>

FormCall ==
    /\ OneCall(FormRegions, {7})
    /\ UNCHANGED <<phase, meshVars, viewVars, frameInputs, undo, lifeVars, otherHover,
                   storeVars, startTime, endTime, route, alertShown>>

FormBatch ==
    /\ TwoCalls(FormRegions, {7})
    /\ UNCHANGED <<phase, meshVars, viewVars, frameInputs, undo, lifeVars, otherHover,
                   storeVars, startTime, endTime, route, alertShown>>

NextForm ==
    \/ FormCall
    \/ FormBatch

SpecForm == Init /\ [][NextForm]_vars

----------------------------------------------------------------------------

(* The log page: times, submit *)

\* the region toggled in the runs of the log page
LogRegions == {"Frontal (Forehead)"}

\* the slider positions tried on the log page: the lower end and one above it
LogSliderValues == {0, 7}

\* values of the datetime-local inputs: 0 for '', else the instant they name
Times == {0, 1, 2}

\* the page mounts at /log for a logged-in user: useState initial values, then
\* the effect that sets the start to one hour ago and the end to now
OpenLog ==
    /\ currentUser # 0
    /\ route # "log"
    /\ route' = "log"
    /\ selectedRegions' = <<>>
    /\ intensities' = EmptyFunction
    /\ painTypes' = EmptyFunction
    /\ startTime' = 1
    /\ endTime' = 2
    /\ alertShown' = ""
    /\ slider' = EmptyFunction
    /\ parity' = {}
    /\ calls' = <<>>
    /\ last' = <<"open", 0>>
    /\ UNCHANGED <<phase, meshVars, viewVars, frameInputs, undo, lifeVars, otherHover,
                   storeVars>>

\* a toggle or a slider change on the mounted log page
LogCall ==
    /\ route = "log"
    /\ currentUser # 0
    /\ OneCall(LogRegions, LogSliderValues)
    /\ UNCHANGED <<phase, meshVars, viewVars, frameInputs, undo, lifeVars, otherHover,
                   storeVars, startTime, endTime, route, alertShown>>

\* onChange of the two datetime-local inputs
setStartTime ==
    /\ route = "log"
    /\ currentUser # 0
    /\ \E t \in Times : startTime' = t
    /\ last' = <<"setStartTime", 0>>
    /\ calls' = <<>>
    /\ UNCHANGED <<phase, meshVars, viewVars, pageVars, frameInputs, undo, lifeVars,
                   otherHover, storeVars, endTime, route, alertShown, slider, parity>>

setEndTime ==
    /\ route = "log"
    /\ currentUser # 0
    /\ \E t \in Times : endTime' = t
    /\ last' = <<"setEndTime", 0>>
    /\ calls' = <<>>
    /\ UNCHANGED <<phase, meshVars, viewVars, pageVars, frameInputs, undo, lifeVars,
                   otherHover, storeVars, startTime, route, alertShown, slider, parity>>

EndBeforeStartNever(start, end) == FALSE

\* end < start on the two Date objects
EndBeforeStart(start, end) == end < start

\* intensities[name] || 5: undefined and 0 are falsy
OrFive(f, name) == IF name \in DOMAIN f /\ f[name] # 0 THEN f[name] ELSE 5

\* the regions of the session handleSubmit builds
SubmittedRegions ==
    [i \in 1 .. Len(selectedRegions) |->
        [region_name |-> selectedRegions[i],
         intensity |-> OrFive(intensities, selectedRegions[i]),
         pain_types |-> IF selectedRegions[i] \in DOMAIN painTypes
                          THEN painTypes[selectedRegions[i]]
                          ELSE <<>>]]

handleSubmit ==
    /\ route = "log"
    /\ currentUser # 0
    /\ IF Len(selectedRegions) = 0
         THEN /\ alertShown' = "Please select at least one region."
              /\ UNCHANGED <<storeVars, route>>
         ELSE IF startTime = 0 \/ endTime = 0
         THEN /\ alertShown' = "Please select start and end times."
              /\ UNCHANGED <<storeVars, route>>
         ELSE IF EndBeforeStart(startTime, endTime)
         THEN /\ alertShown' = "End time cannot be before start time."
              /\ UNCHANGED <<storeVars, route>>
         ELSE /\ nextUuid <= MaxUuid
              /\ Len(sessions) < MaxSessions
              /\ addSessionCall([start_time |-> startTime, end_time |-> endTime,
                                 regions |-> SubmittedRegions])
              /\ route' = "dashboard"
              /\ UNCHANGED alertShown
    /\ last' = <<"submit", 0>>
    /\ calls' = <<>>
    /\ UNCHANGED <<phase, meshVars, viewVars, pageVars, frameInputs, undo, lifeVars,
                   otherHover, startTime, endTime, slider, parity>>

NextLog ==
    \/ login
    \/ OpenLog
    \/ LogCall
    \/ setStartTime
    \/ setEndTime
    \/ handleSubmit

SpecLog == Init /\ [][NextLog]_vars

----------------------------------------------------------------------------

(* Visibility and opacity claims, checked under Spec *)

Material(ri) == matRefs[ri + 1]

Name(ri) == At(REGIONS, ri).name

\* every dot product of two unit vectors, in thousandths
DotRange == (0 - ONE) .. ONE

\* the ramp over the whole range of dot products
RampOverAllDots ==
    \A d \in DotRange :
        /\ Visibility(d) >= 0
        /\ Visibility(d) <= ONE
        /\ d <= 0 => Visibility(d) = 0
        /\ d * 100 >= DEADBAND * ONE => Visibility(d) = ONE
        /\ d < ONE => Visibility(d) <= Visibility(d + 1)

\* C5: the visibility of a region is never decreasing in the dot product of the
\* camera direction and the region's facing vector, is 0 for every dot <= 0,
\* is 1 for every dot >= 0.25, and always lies in [0, 1].
C5_VisibilityRamp ==
    LET dot == [ri \in RegionIdx |-> RegionDot(camera, ri)]
    IN  /\ RampOverAllDots
        /\ \A r1 \in RegionIdx :
                /\ Visibility(dot[r1]) >= 0
                /\ Visibility(dot[r1]) <= ONE
                /\ dot[r1] <= 0 => Visibility(dot[r1]) = 0
                /\ dot[r1] * 100 >= DEADBAND * ONE => Visibility(dot[r1]) = ONE
                /\ \A r2 \in RegionIdx :
                        dot[r1] <= dot[r2] => Visibility(dot[r1]) <= Visibility(dot[r2])

\* a frame pass has run with regions facing away, regions inside the dead-band
\* and regions facing the camera fully
C5_Witness ==
    /\ frameInputs # NoFrame
    /\ \E ri \in RegionIdx : RegionDot(frameInputs.camera, ri) < 0
    /\ \E ri \in RegionIdx :
          /\ Visibility(RegionDot(frameInputs.camera, ri)) > 0
          /\ Visibility(RegionDot(frameInputs.camera, ri)) < ONE
          /\ Material(ri).opacity < 10 * ONE
    /\ \E ri \in RegionIdx : RegionDot(frameInputs.camera, ri) * 100 > DEADBAND * ONE

\* C6: after every frame pass, a region whose facing vector has a dot product
\* <= 0 with the camera direction is hidden, whatever its selection and hover
\* state, and every region with a positive dot product is visible.
C6_HiddenIffFacingAway ==
    frameInputs # NoFrame =>
        \A ri \in RegionIdx :
            Material(ri).visible = (RegionDot(frameInputs.camera, ri) > 0)

\* the frame pass hid a region that was selected and hovered, and showed another
C6_Witness ==
    /\ frameInputs # NoFrame
    /\ \E ri \in RegionIdx :
          /\ Includes(frameInputs.selected, Name(ri))
          /\ frameInputs.hovered = ri
          /\ RegionDot(frameInputs.camera, ri) <= 0
          /\ ~Material(ri).visible
    /\ \E ri \in RegionIdx : Material(ri).visible

\* the opacity table of the specification, in hundredths
TableOpacity(isSelected, isHovered) ==
    CASE isSelected /\ isHovered -> 75
      [] isSelected /\ ~isHovered -> 60
      [] ~isSelected /\ isHovered -> 40
      [] OTHER -> 10

\* clamp(dot / 0.25, 0, 1) of a positive dot
ClampedFacing(dot) ==
    IF dot * 100 >= DEADBAND * ONE THEN ONE ELSE (dot * 100) \div DEADBAND

\* C7: after every frame pass, every region with visibility > 0 has opacity
\* baseOpacity * visibility, with baseOpacity 0.75 / 0.60 / 0.40 / 0.10 for
\* selected and hovered / selected / hovered / neither; an unselected,
\* unhovered region with dot >= 0.25 has opacity 0.10.
C7_OpacityIsBaseTimesVisibility ==
    frameInputs # NoFrame =>
        \A ri \in RegionIdx :
            LET dot == RegionDot(frameInputs.camera, ri)
                isSelected == Includes(frameInputs.selected, Name(ri))
                isHovered == frameInputs.hovered = ri
            IN  /\ dot > 0 =>
                      Material(ri).opacity
                          = TableOpacity(isSelected, isHovered) * ClampedFacing(dot)
                /\ (dot * 100 >= DEADBAND * ONE /\ ~isSelected /\ ~isHovered) =>
                      Material(ri).opacity = 10 * ONE

\* one frame pass drew a selected and hovered region, an idle region inside the
\* dead-band, and an idle region facing the camera fully
C7_Witness ==
    /\ frameInputs # NoFrame
    /\ \E ri \in RegionIdx :
          /\ Includes(frameInputs.selected, Name(ri))
          /\ frameInputs.hovered = ri
          /\ Material(ri).visible
          /\ Material(ri).opacity = 75 * ONE
    /\ \E ri \in RegionIdx :
          /\ ~Includes(frameInputs.selected, Name(ri))
          /\ frameInputs.hovered # ri
          /\ ClampedFacing(RegionDot(frameInputs.camera, ri)) > 0
          /\ ClampedFacing(RegionDot(frameInputs.camera, ri)) < ONE
          /\ Material(ri).opacity
                = 10 * ClampedFacing(RegionDot(frameInputs.camera, ri))
    /\ \E ri \in RegionIdx :
          /\ ~Includes(frameInputs.selected, Name(ri))
          /\ frameInputs.hovered # ri
          /\ RegionDot(frameInputs.camera, ri) * 100 >= DEADBAND * ONE
          /\ Material(ri).opacity = 10 * ONE

\* position of a state in the order idle < hovered < selected < selected and hovered
Rank(isSelected, isHovered) ==
    (IF isSelected THEN 2 ELSE 0) + (IF isHovered THEN 1 ELSE 0)

RankIn(inputs, ri) == Rank(Includes(inputs.selected, Name(ri)), inputs.hovered = ri)

\* C8: for any region and any two frame passes at equal positive visibility,
\* the pass that saw the region in the higher state of the order
\* idle < hovered only < selected only < selected and hovered
\* wrote the strictly greater opacity.
C8_OpacityOrderedByState ==
    [][(frameInputs # NoFrame /\ frameInputs' # NoFrame /\ frameInputs' # frameInputs) =>
         \A ri \in RegionIdx :
             (/\ Visibility(RegionDot(frameInputs.camera, ri)) > 0
              /\ Visibility(RegionDot(frameInputs'.camera, ri))
                    = Visibility(RegionDot(frameInputs.camera, ri)))
             => /\ RankIn(frameInputs, ri) < RankIn(frameInputs', ri)
                      => Material(ri).opacity < Material(ri)'.opacity
                /\ RankIn(frameInputs, ri) > RankIn(frameInputs', ri)
                      => Material(ri).opacity > Material(ri)'.opacity
                /\ RankIn(frameInputs, ri) = RankIn(frameInputs', ri)
                      => Material(ri).opacity = Material(ri)'.opacity]_vars

\* a pass drew a region hovered only; the region is now selected only at the
\* same positive visibility, so the next pass is compared with that one
C8_Witness ==
    /\ frameInputs # NoFrame
    /\ \E ri \in RegionIdx :
          /\ RankIn(frameInputs, ri) = 1
          /\ Material(ri).opacity = 40 * Visibility(RegionDot(frameInputs.camera, ri))
          /\ Visibility(RegionDot(frameInputs.camera, ri)) > 0
          /\ Visibility(RegionDot(camera, ri))
                = Visibility(RegionDot(frameInputs.camera, ri))
          /\ Rank(Includes(selectedRegions, Name(ri)), hoveredRef = ri) = 2

----------------------------------------------------------------------------
(* Selection claims, checked under Spec *)

ElementsOf(s) == {s[i] : i \in 1 .. Len(s)}

\* C9: toggling the same region twice in a row through the page's toggle
\* handler leaves the selection with the names it had before the first of the
\* two toggles, each of them once, for every region and every starting selection.
C9_ToggleTwiceRestoresSet ==
    [][(undo # NoToggle /\ undo' # undo /\ undo'.name = undo.name) =>
         /\ ElementsOf(selectedRegions') = ElementsOf(undo.before)
         /\ Len(selectedRegions') = Len(undo.before)]_vars

\* a region was added and then removed again beside another selected region
C9_Witness ==
    /\ undo # NoToggle
    /\ Includes(undo.before, undo.name)
    /\ Len(undo.before) = 2
    /\ undo.before[2] = undo.name
    /\ selectedRegions = <<undo.before[1]>>
    /\ undo.name \notin DOMAIN intensities

RegionNamesVC == {REGIONS_VC[i].name : i \in 1 .. Len(REGIONS_VC)}

\* C10: a pointer press on the detailed mesh invokes the toggle callback exactly
\* once, with the name of the region resolved from the hit triangle, when that
\* region is clickable, and not at all when the hit resolves to a dummy anchor
\* or there is no hit; the callback only ever receives names of the catalog.
C10_PressTogglesResolvedRegion ==
    /\ \A i \in 1 .. Len(calls) : calls[i] \in RegionNames \cup RegionNamesVC
    /\ last[1] = "down" =>
          IF last[2] = NoFace
            THEN calls = <<>>
            ELSE LET anchor ==
                       At(ALL_ANCHORS, At(vertexAnchorMap, Corner(last[2], 0)))
                 IN  IF anchor.clickable
                       THEN /\ calls = <<Name(anchor.regionIdx)>>
                            /\ undo # NoToggle
                            /\ undo.name = Name(anchor.regionIdx)
                            /\ selectedRegions
                                  = ToggleSelected(undo.before, Name(anchor.regionIdx))
                       ELSE calls = <<>>
    /\ last[1] = "downVC" =>
          IF last[2] = NoFace
            THEN calls = <<>>
            ELSE LET anchor ==
                       At(ALL_VORONOI_REGIONS, At(vertexRegions, Corner(last[2], 0)))
                 IN  IF anchor.clickable
                       THEN /\ calls = <<anchor.name>>
                            /\ anchor.name \in RegionNamesVC
                            /\ undo # NoToggle
                            /\ undo.name = anchor.name
                            /\ selectedRegions = ToggleSelected(undo.before, anchor.name)
                       ELSE calls = <<>>

\* the latest event is a press on a triangle of a clickable region, which
\* selected that region
C10_Witness ==
    /\ last[1] = "down"
    /\ last[2] # NoFace
    /\ Len(calls) = 1
    /\ Includes(selectedRegions, calls[1])
    /\ At(ALL_ANCHORS, At(vertexAnchorMap, Corner(last[2], 0))).clickable

----------------------------------------------------------------------------
(* Hover claims, checked under SpecPointer *)

\* the region a hit resolves to in the overlay head, -1 for none: the anchor
\* of the hit triangle's first vertex when it is one of the catalog's
ResolvedRegion(face) ==
    IF face = NoFace THEN 0 - 1
    ELSE IF At(vertexAnchorMap, Corner(face, 0)) < Len(REGIONS)
           THEN At(vertexAnchorMap, Corner(face, 0))
           ELSE 0 - 1

\* the same for the vertex-colour head: a name, "null" for none
ResolvedRegionVC(face) ==
    IF face = NoFace THEN "null"
    ELSE IF At(vertexRegions, Corner(face, 0)) < Len(REGIONS_VC)
           THEN At(REGIONS_VC, At(vertexRegions, Corner(face, 0))).name
           ELSE "null"

\* C11: on a pointer move over the detailed mesh, when the resolved region
\* differs from the hover state, hover becomes the resolved region and the
\* cursor becomes 'pointer' for a clickable region and 'auto' otherwise; when
\* it does not differ, hover and cursor stay as they are.  Hover is a single
\* value: none or one region of the catalog, never a dummy anchor.
C11_MoveUpdatesHover ==
    [][/\ (last' # last /\ last'[1] = "move") =>
             IF ResolvedRegion(last'[2]) # hoveredRef
               THEN /\ hoveredRef' = ResolvedRegion(last'[2])
                    /\ cursor' = IF hoveredRef' \in RegionIdx THEN "pointer" ELSE "auto"
               ELSE UNCHANGED <<hoveredRef, cursor>>
       /\ (last' # last /\ last'[1] = "moveVC" /\ last'[2] # NoFace) =>
             IF ResolvedRegionVC(last'[2]) # hoveredRegion
               THEN /\ hoveredRegion' = ResolvedRegionVC(last'[2])
                    /\ cursor' = IF hoveredRegion' \in RegionNamesVC
                                    THEN "pointer" ELSE "auto"
               ELSE UNCHANGED <<hoveredRegion, cursor>>
       /\ hoveredRef' \in RegionIdx \cup {0 - 1}
       /\ hoveredRegion' \in RegionNamesVC \cup {"null"}]_vars

\* a move onto dummy territory cleared the hover of the overlay head and
\* set the cursor back to 'auto'
C11_Witness ==
    /\ last[1] = "move"
    /\ last[2] # NoFace
    /\ ~At(ALL_ANCHORS, At(vertexAnchorMap, Corner(last[2], 0))).clickable
    /\ hoveredRef = 0 - 1
    /\ cursor = "auto"
    /\ hoveredRegion \in RegionNamesVC

\* C12: a pointer-out on the detailed mesh clears the hover state and sets
\* the cursor to 'auto', whatever the hover state was.
C12_OutClearsHover ==
    [][/\ (last' # last /\ last'[1] = "out") =>
             (hoveredRef' = 0 - 1 /\ cursor' = "auto")
       /\ (last' # last /\ last'[1] = "outVC") =>
             (hoveredRegion' = "null" /\ cursor' = "auto")]_vars

\* the pointer left the overlay head: no region is hovered, the cursor is
\* 'auto', and a press had selected the region before
C12_Witness ==
    /\ last[1] = "out"
    /\ hoveredRef = 0 - 1
    /\ cursor = "auto"
    /\ Includes(selectedRegions, Name(0))

\* C13 as stated: after a move event with no face, or with a hit in a dummy
\* anchor's territory, the hover state is none, no toggle callback was
\* invoked and no error was raised.
C13_AsStated ==
    /\ last[1] = "move" /\ ResolvedRegion(last[2]) = 0 - 1 =>
          (hoveredRef = 0 - 1 /\ calls = <<>> /\ ~escaped /\ phase = "detailed")
    /\ last[1] = "moveVC" /\ ResolvedRegionVC(last[2]) = "null" =>
          (hoveredRegion = "null" /\ calls = <<>> /\ ~escaped /\ phase = "detailed")

----------------------------------------------------------------------------
(* Presentation claims, checked under Spec *)

\* C14: a failed asset request, an asset without a usable mesh and an error
\* thrown while the detailed head is built are not fatal: the fallback head
\* is presented, no exception leaves HeadDiagram3D, and the fallback stays
\* presented for as long as HeadDiagram3D is mounted.
C14_ErrorFallsBack ==
    [][/\ ~escaped'
       /\ phase' = "error" => mounted' = {"FallbackHead"}
       /\ (phase = "loading" /\ phase' \notin {"loading", "detailed"} /\ mounted' # {})
             => phase' = "error"
       /\ (phase = "error" /\ mounted' # {})
             => (phase' = "error" /\ mounted' = {"FallbackHead"})]_vars

\* the build of the detailed head failed and the page went on being used
\* with the fallback head
C14_Witness ==
    /\ phase = "error"
    /\ mounted = {"FallbackHead"}
    /\ ~escaped
    /\ undo # NoToggle
    /\ camera # InitialCamera

\* C15: in every state of a mounted HeadDiagram3D exactly one head is
\* presented: the detailed head exactly when the mesh is available and no
\* error occurred, the fallback head exactly while the mesh is loading or
\* after an error.
C15_OnePresentation ==
    phase # "unmounted" =>
        /\ Cardinality(mounted) = 1
        /\ mounted \subseteq {"RealisticHead", "FallbackHead"}
        /\ "RealisticHead" \in mounted <=> phase = "detailed"
        /\ "FallbackHead" \in mounted <=> phase \in {"loading", "error"}

\* the detailed head is presented alone and its frame pass has run
C15_Witness ==
    /\ phase = "detailed"
    /\ mounted = {"RealisticHead"}
    /\ frameInputs # NoFrame

\* C16: a frame callback is registered only while the detailed head is
\* presented, and a frame pass runs only then: never while the fallback head
\* is presented, and not after the detailed head was unmounted.
C16_NoFramePassOutsideDetailed ==
    [][/\ frameSubs' > 0 => (phase' = "detailed" /\ mounted' = {"RealisticHead"})
       /\ (frameInputs' # frameInputs /\ frameInputs' # NoFrame)
             => (phase = "detailed" /\ mounted = {"RealisticHead"})
       /\ matRefs' # matRefs => (phase = "detailed" \/ phase' = "detailed")]_vars

\* a detailed head was unmounted and left no frame callback behind
C16_Witness ==
    /\ phase = "unmounted"
    /\ Len(vertexAnchorMap) > 0
    /\ frameSubs = 0
    /\ mounted = {}

\* C18: for a mesh without triangles every region's sub-geometry is empty,
\* no vertex is marked boundary, every pick resolves to none, and the head
\* is presented without an error.
C18_NoTrianglesIsInert ==
    (phase = "detailed" /\ Count(normalizedGeo.index) = 0) =>
        /\ \A ri \in RegionIdx :
              /\ At(regionGeos, ri).index = <<>>
              /\ At(regionGeos, ri).position = <<>>
        /\ \A v \in VertexIdx : At(isBoundary, v) = 0
        /\ \A face \in Faces : getRegionIdx(face) = 0 - 1
        /\ last[1] \in {"down", "move"} => (calls = <<>> /\ hoveredRef = 0 - 1)
        /\ ~escaped
        /\ mounted = {"RealisticHead"}

\* a mesh with vertices and no triangle is presented, its frame pass has run
\* and a press on it resolved to none
C18_Witness ==
    /\ phase = "detailed"
    /\ Count(normalizedGeo.index) = 0
    /\ Count(normalizedGeo.position) > 0
    /\ frameInputs # NoFrame
    /\ last[1] = "down"
    /\ calls = <<>>

\* C19: a frame pass changes nothing but the visible flag and the opacity of
\* the overlay materials: selection, hover, the classification map and the
\* sub-geometries are as before it.  Hover changes only in a pointer handler,
\* the selection only in a call of the toggle handler.
C19_FramePassReadOnly ==
    [][/\ (frameInputs' # frameInputs /\ frameInputs' # NoFrame) =>
             /\ UNCHANGED <<selectedRegions, intensities, painTypes, hoveredRef,
                             hoveredRegion, hov, cursor, meshVars, camera>>
             /\ \A ri \in RegionIdx : DOMAIN Material(ri)' = {"visible", "opacity"}
       /\ hoveredRef' # hoveredRef => last'[1] \in {"move", "out"}
       /\ selectedRegions' # selectedRegions =>
             (calls' # <<>> /\ undo' # NoToggle /\ undo'.before = selectedRegions)
       /\ meshVars' # meshVars => phase = "loading"]_vars

\* a frame pass ran over a hovered, selected region and both are still set
C19_Witness ==
    /\ frameInputs # NoFrame
    /\ frameInputs.hovered \in RegionIdx
    /\ hoveredRef = frameInputs.hovered
    /\ frameInputs.selected # <<>>
    /\ selectedRegions = frameInputs.selected
    /\ Material(frameInputs.hovered).opacity # 10 * ONE

----------------------------------------------------------------------------
(* The classifier on degenerate input, checked under SpecGeo *)

\* C17 as stated: the classifier rejects a mesh with zero vertices and an
\* empty anchor list instead of producing a classification map, and succeeds
\* on every other input: a detailed head is only ever built from a mesh with
\* vertices.
C17_AsStated ==
    phase = "detailed" =>
        /\ Count(normalizedGeo.position) > 0
        /\ Count(ALL_ANCHORS) > 0
        /\ Count(vertexAnchorMap) = Count(normalizedGeo.position)


----------------------------------------------------------------------------
(* The fallback head, checked under SpecFallback *)

\* a press on the cranium, on a primitive with one region, on the older cranium
CraniumPressed == last'[1] = "craniumClick" /\ selectedRegions' # selectedRegions
PartPressed == last'[1] = "partClick" /\ selectedRegions' # selectedRegions
CraniumPressedVC == last'[1] = "craniumClickVC" /\ selectedRegions' # selectedRegions

\* C20: in the fallback head a press or a move on the cranium resolves by the
\* sign of the Z coordinate of the hit point: Z > 0 to the frontal region
\* ('Frontal (Forehead)'; 'Forehead' in the older head), otherwise, Z = 0
\* included, to the occipital region ('Occipital (Back of Skull)'; 'Back of
\* head' in the older head).  A press toggles exactly that region and a move
\* leaves it hovered.  Every other primitive with a handler toggles the one
\* region it owns, the same at every press, different from the regions of the
\* other primitives and of the cranium, and every name passed to the toggle
\* callback is a name of the region catalog of its head.
C20_FallbackCraniumSplit ==
    [][ /\ CraniumPressed =>
              /\ calls' = << IF last'[2] > 0 THEN "Frontal (Forehead)"
                                             ELSE "Occipital (Back of Skull)" >>
              /\ selectedRegions' = ToggleSelected(selectedRegions, calls'[1])
              /\ calls'[1] \in RegionNames
        /\ (last' # last /\ last'[1] = "craniumMove") =>
              /\ hov' = IF last'[2] > 0 THEN "Frontal (Forehead)"
                                        ELSE "Occipital (Back of Skull)"
              /\ cursor' = "pointer"
              /\ calls' = <<>>
              /\ UNCHANGED selectedRegions
        /\ PartPressed =>
              /\ Len(calls') = 1
              /\ calls'[1] \in RegionNames
                    \ {"Frontal (Forehead)", "Occipital (Back of Skull)"}
              /\ calls'[1] = At(FallbackParts, last'[2])
              /\ \A j \in Indices(FallbackParts) :
                    At(FallbackParts, j) = calls'[1] => j = last'[2]
              /\ selectedRegions' = ToggleSelected(selectedRegions, calls'[1])
        /\ CraniumPressedVC =>
              /\ calls' = << IF last'[2] > 0 THEN "Forehead" ELSE "Back of head" >>
              /\ selectedRegions' = ToggleSelected(selectedRegions, calls'[1])
              /\ calls'[1] \in RegionNamesVC
        /\ (last' # last /\ last'[1] = "craniumMoveVC") =>
              /\ hoveredPart' = IF last'[2] > 0 THEN "Forehead" ELSE "Back of head"
              /\ calls' = <<>>
              /\ UNCHANGED selectedRegions
        /\ "FallbackHead" \in mounted' =>
              \A k \in 1 .. Len(calls') : calls'[k] \in RegionNames \cup RegionNamesVC
      ]_vars

\* after the asset failed: the cranium was hovered in front (Z > 0), then
\* pressed at Z = 0, which selected the occipital region and no other
C20_Witness ==
    /\ phase = "error"
    /\ last = <<"craniumClick", 0>>
    /\ calls = <<"Occipital (Back of Skull)">>
    /\ selectedRegions = <<"Occipital (Back of Skull)">>
    /\ hov = "Frontal (Forehead)"
    /\ cursor = "pointer"

----------------------------------------------------------------------------
(* Sub-geometry layout, checked under SpecGeo *)

\* the vertices of the mesh that region ri uses: the corners of its triangles
UsedBy(ri) == UNION {Corners(t) : t \in {u \in TriangleIdx : Votes(u, ri) >= 2}}

\* C23: every region sub-geometry is reindexed locally and is self-contained:
\* with n local vertices, its triangle indices are all below n and together
\* are exactly 0 .. n-1, so no local vertex is unused; each vertex of the mesh
\* used by the region has exactly one local vertex, with the position and the
\* normal of the original; two used vertices never share a local vertex; and
\* a vertex the region does not use is not copied.
C23_LocallyReindexed ==
    phase = "detailed" =>
        \A ri \in RegionIdx :
            LET g == At(regionGeos, ri)
                n == Len(g.position)
            IN  /\ Len(g.normal) = n
                /\ \A j \in 1 .. Len(g.index) : g.index[j] \in 0 .. (n - 1)
                /\ {g.index[j] : j \in 1 .. Len(g.index)} = 0 .. (n - 1)
                /\ DOMAIN g.remap = UsedBy(ri)
                /\ n = Cardinality(UsedBy(ri))
                /\ \A v \in UsedBy(ri) :
                      /\ g.remap[v] \in 0 .. (n - 1)
                      /\ At(g.position, g.remap[v]) = At(normalizedGeo.position, v)
                      /\ At(g.normal, g.remap[v]) = At(normalizedGeo.normal, v)
                /\ \A v, w \in UsedBy(ri) : g.remap[v] = g.remap[w] => v = w

\* a region keeps two triangles that share an edge: 6 indices over 4 local
\* vertices, the two shared vertices copied once
C23_Witness ==
    /\ phase = "detailed"
    /\ \E ri \in RegionIdx :
          /\ Len(At(regionGeos, ri).index) = 6
          /\ Len(At(regionGeos, ri).position) = 4
          /\ Cardinality(UsedBy(ri)) = 4

----------------------------------------------------------------------------

(* Pick resolution against the overlays, checked under SpecPick *)

\* C24 as stated: for the triangle hit by a press and every clickable region R,
\* the press toggles R if and only if the triangle is one of the triangles of
\* R's sub-geometry.
C24_AsStated ==
    (phase = "detailed" /\ last[1] = "down" /\ last[2] # NoFace) =>
        \A ri \in RegionIdx :
            (calls = <<Name(ri)>>) <=> InSubGeo(At(regionGeos, ri), last[2])

----------------------------------------------------------------------------

(* The cursor hint across presentation changes, checked under SpecHover *)

\* C28 as stated: whenever the cursor hint is 'pointer', a region is hovered in
\* the head that is presented: the overlay head's hoveredRef when RealisticHead
\* is mounted, the fallback head's hov when FallbackHead is mounted.
C28_AsStated ==
    cursor = "pointer" =>
        \/ "RealisticHead" \in mounted /\ hoveredRef >= 0
        \/ "FallbackHead" \in mounted /\ hov # "null"

----------------------------------------------------------------------------

(* Vertex colours of the vertex-colour head *)

\* a colour as its three 8-bit channels, times 25 so that a quarter-range
\* interpolation at a tenth of an intensity point stays an integer
Hex(r, g, b) == <<25 * r, 25 * g, 25 * b>>

baseColor == Hex(243, 244, 246)
selectedColor == Hex(252, 165, 165)
hoveredColor == Hex(254, 226, 226)
selectedHoveredColor == Hex(248, 113, 113)
boundaryColor == Hex(156, 163, 175)

\* the stops of the heat ramp: blue, green, yellow, orange, red
HeatStops == <<Hex(147, 197, 253), Hex(110, 231, 183), Hex(253, 224, 71),
               Hex(251, 146, 60), Hex(239, 68, 68)>>

\* c1.lerp(c2, alpha) with alpha = num / 25
Lerp(c1, c2, num) == [k \in 1 .. 3 |-> c1[k] + DivT((c2[k] - c1[k]) * num, 25)]

\* intensityToColor; the intensity is in tenths of a point, so t = intensity / 100
intensityToColor(intensity) ==
    LET t == Max2(0, Min2(100, intensity))
    IN  IF t < 25 THEN Lerp(HeatStops[1], HeatStops[2], t)
        ELSE IF t < 50 THEN Lerp(HeatStops[2], HeatStops[3], t - 25)
        ELSE IF t < 75 THEN Lerp(HeatStops[3], HeatStops[4], t - 50)
        ELSE Lerp(HeatStops[4], HeatStops[5], t - 75)

\* intensityMap.get(name) once every entry of the prop was set in order: the
\* latest entry of the region, or the empty sequence for undefined
IntensityMapGet(regionIntensities, name) ==
    LET hits == SelectSeq(regionIntensities, LAMBDA e : e.region = name)
    IN  IF Len(hits) = 0 THEN <<>> ELSE <<hits[Len(hits)].intensity>>

\* the colour coloredGeometry writes for vertex i
VertexColor(i, selected, hovered, regionIntensities) ==
    LET regionInfo == At(ALL_VORONOI_REGIONS, At(vertexRegions, i))
        isSelected == Includes(selected, regionInfo.name)
        isHovered == hovered = regionInfo.name
        regionIntensity == IntensityMapGet(regionIntensities, regionInfo.name)
    IN  IF regionInfo.clickable
          THEN IF At(isBoundary, i) # 0 THEN boundaryColor
               ELSE IF regionIntensity # <<>> /\ regionIntensity[1] > 0
                      THEN intensityToColor(regionIntensity[1])
               ELSE IF isSelected /\ isHovered THEN selectedHoveredColor
               ELSE IF isSelected THEN selectedColor
               ELSE IF isHovered THEN hoveredColor
               ELSE baseColor
          ELSE IF At(isBoundary, i) # 0 THEN boundaryColor ELSE baseColor

\* values of the regionIntensities prop: absent or empty (both leave the map
\* empty), and lists over the two regions of the cranium
IntensityProps ==
    { <<>>,
      <<[region |-> "Forehead", intensity |-> 0]>>,
      <<[region |-> "Forehead", intensity |-> 70]>>,
      <<[region |-> "Forehead", intensity |-> 30],
        [region |-> "Back of head", intensity |-> 100]>> }

----------------------------------------------------------------------------
(* Heatmap colouring, checked under SpecPointer *)

\* C22 as stated: with a regionIntensities prop, a vertex of a clickable region
\* that is not on a seam and whose region has a supplied intensity has the
\* colour of that intensity, whatever the selection and the hover are.
C22_AsStated ==
    phase = "detailed" =>
      \A props \in IntensityProps :
        \A i \in Indices(vertexRegions) :
          LET regionInfo == At(ALL_VORONOI_REGIONS, At(vertexRegions, i))
          IN  (/\ regionInfo.clickable
               /\ At(isBoundary, i) = 0
               /\ IntensityMapGet(props, regionInfo.name) # <<>>)
              => VertexColor(i, selectedRegions, hoveredRegion, props)
                    = intensityToColor(IntensityMapGet(props, regionInfo.name)[1])

----------------------------------------------------------------------------
(* The store's frame conditions, checked under SpecStore *)

AddSessionStep == last'[1] = "addSession" /\ (last' # last \/ sessions' # sessions)

\* C30: addSession without a current user leaves the session list unchanged;
\* with a current user it appends exactly one session, whose user_id is the
\* current user's id and whose id is new, after the existing sessions, which
\* stay as they were and in order.  At every time each stored session's user_id
\* is the id of the user who was logged in when it was added, and a login, a
\* rejected login or a logout leaves the session list unchanged.
C30_StoreFrame ==
    [][ /\ (AddSessionStep /\ currentUser = 0) => sessions' = sessions
        /\ (AddSessionStep /\ currentUser # 0) =>
              /\ Len(sessions') = Len(sessions) + 1
              /\ SubSeq(sessions', 1, Len(sessions)) = sessions
              /\ sessions'[Len(sessions')].user_id = currentUser
              /\ \A i \in 1 .. Len(sessions) :
                    sessions[i].id # sessions'[Len(sessions')].id
        /\ last'[1] \in {"login", "loginRejected", "logout"} => sessions' = sessions
        /\ \A i \in 1 .. Len(sessions') :
              /\ sessions'[i].id \in DOMAIN addedBy'
              /\ sessions'[i].user_id = addedBy'[sessions'[i].id]
              /\ sessions'[i].user_id # 0
      ]_vars

\* two users added a session each, the first user's after a logout and a new
\* login; nobody is logged in and a further addSession changed nothing
C30_Witness ==
    /\ currentUser = 0
    /\ last[1] = "addSession"
    /\ Len(sessions) = 2
    /\ sessions[1].user_id # sessions[2].user_id

----------------------------------------------------------------------------
(* The dashboard's heatmap list, checked under SpecStore *)

\* C21: when the current user has no region logged in any session (no logs,
\* or only sessions without regions), the heatmap intensity list the dashboard
\* builds is empty and the Pain Heatmap section is not rendered; the sessions
\* of other users do not count.  The list has one entry per logged region
\* otherwise, so it is empty in this case only.
C21_NoLogsNoHeatmap ==
    currentUser # 0 =>
        LET own == {k \in 1 .. Len(sessions) : sessions[k].user_id = currentUser}
            names == UNION {{sessions[k].regions[j].region_name :
                                j \in 1 .. Len(sessions[k].regions)} : k \in own}
        IN  /\ names = {} => (heatmapIntensities = <<>> /\ ~RendersHeatmap)
            /\ {heatmapIntensities[i].region : i \in 1 .. Len(heatmapIntensities)} = names
            /\ Len(heatmapIntensities) = Cardinality(names)
            /\ RendersHeatmap <=> names # {}

\* a user with one session that holds no region, next to another user's
\* session with two regions: the list is empty and no section is rendered
C21_Witness ==
    /\ currentUser # 0
    /\ Len(sessions) = 2
    /\ \E i, j \in 1 .. 2 :
          /\ sessions[i].user_id = currentUser /\ sessions[i].regions = <<>>
          /\ sessions[j].user_id # currentUser /\ Len(sessions[j].regions) = 2
    /\ heatmapIntensities = <<>>
    /\ ~RendersHeatmap

----------------------------------------------------------------------------
(* The selection list and its companions, checked under SpecForm *)

\* the regions whose membership differs before and after a step
Flipped == {r \in FormRegions : Includes(selectedRegions, r) # Includes(selectedRegions', r)}

\* C25: starting from the empty selection, after any sequence of toggle calls
\* the selected-region list holds no name twice; a region is in the list iff
\* it was toggled an odd number of times, also when two calls ran in one
\* batch; and a call leaves the regions it does not toggle in the list in
\* their order, removes the toggled region if it was in the list and appends
\* it at the end if it was not.
C25_OrderedSetOfOddToggles ==
    [][ /\ \A i, j \in 1 .. Len(selectedRegions') :
              selectedRegions'[i] = selectedRegions'[j] => i = j
        /\ {selectedRegions'[i] : i \in 1 .. Len(selectedRegions')} = parity'
        /\ (last'[1] = "toggle" /\ selectedRegions' # selectedRegions) =>
              /\ Cardinality(Flipped) = 1
              /\ SelectSeq(selectedRegions', LAMBDA r : r \notin Flipped)
                    = SelectSeq(selectedRegions, LAMBDA r : r \notin Flipped)
              /\ \A i, j \in 1 .. Len(selectedRegions') :
                    (selectedRegions'[i] \in Flipped /\ selectedRegions'[j] \notin Flipped)
                        => j < i
              /\ \A r \in Flipped :
                    selectedRegions' = IF Includes(selectedRegions, r)
                                         THEN SelectSeq(selectedRegions, LAMBDA x : x # r)
                                         ELSE selectedRegions \o <<r>>
      ]_vars

\* two regions are selected in the order they were added, the second before
\* the first of the catalog; the latest call toggled a third region off
C25_Witness ==
    /\ selectedRegions = <<"Left Temporal", "Frontal (Forehead)">>
    /\ parity = {"Left Temporal", "Frontal (Forehead)"}
    /\ calls = <<"Occipital (Back of Skull)">>
    /\ last[1] = "toggle"

\* C26 as stated: after any sequence of toggle and intensity-change calls, two
\* of them in one batch included, the regions with an intensity entry are
\* exactly the selected regions, and so are the regions with a pain-type entry.
C26_AsStated ==
    /\ DOMAIN intensities = {selectedRegions[i] : i \in 1 .. Len(selectedRegions)}
    /\ DOMAIN painTypes = {selectedRegions[i] : i \in 1 .. Len(selectedRegions)}

----------------------------------------------------------------------------
(* Saving from the log form, checked under SpecLog *)

\* a step of handleSubmit that added a session
SavedStep == last'[1] = "submit" /\ Len(sessions') = Len(sessions) + 1

\* C27 as stated: every region of a session saved from the form has the
\* intensity last set for it with the slider, for each slider value 0..10,
\* and 5 when the slider was not moved since the region was selected.
C27_AsStated ==
    [][SavedStep =>
         LET saved == sessions'[Len(sessions')]
         IN  \A i \in 1 .. Len(saved.regions) :
                 saved.regions[i].intensity
                    = IF saved.regions[i].region_name \in DOMAIN slider
                        THEN slider[saved.regions[i].region_name]
                        ELSE 5
      ]_vars

\* handleSubmit ran in this step: it left an alert, a session or a new route
SubmitStep ==
    /\ last'[1] = "submit"
    /\ last' # last \/ sessions' # sessions \/ alertShown' # alertShown \/ route' # route

\* the form as handleSubmit finds it is acceptable
Acceptable ==
    /\ Len(selectedRegions) > 0
    /\ startTime # 0
    /\ endTime # 0
    /\ endTime >= startTime

\* C29: a submit adds a session only when at least one region is selected,
\* both times are set and the end is not before the start, and then it adds
\* exactly one and navigates to the dashboard; in every other case the store's
\* sessions are unchanged, the route is unchanged and a message is shown.
\* Every session added through the form has at least one region and
\* end_time >= start_time.
C29_SubmitValidates ==
    [][ /\ (SubmitStep /\ Acceptable) =>
              /\ Len(sessions') = Len(sessions) + 1
              /\ SubSeq(sessions', 1, Len(sessions)) = sessions
              /\ route' = "dashboard"
        /\ (SubmitStep /\ ~Acceptable) =>
              /\ sessions' = sessions
              /\ route' = route
              /\ alertShown' # ""
        /\ \A i \in 1 .. Len(sessions') :
              /\ Len(sessions'[i].regions) >= 1
              /\ sessions'[i].end_time >= sessions'[i].start_time
      ]_vars

\* a session was saved with equal start and end; back on the form, a submit
\* with the end before the start was refused with its message
C29_Witness ==
    /\ Len(sessions) = 1
    /\ sessions[1].start_time = sessions[1].end_time
    /\ route = "log"
    /\ last[1] = "submit"
    /\ Len(selectedRegions) > 0
    /\ endTime # 0 /\ endTime < startTime
    /\ alertShown = "End time cannot be before start time."

====
